---- MODULE Spec2Model ----
(***************************************************************************)
(* Process orchestration engine (saga): dependency resolver, per-step      *)
(* circuit breaker, step execution state machine, event ledger.            *)
(* Modelled from src/index.py (the complete draft of the engine),          *)
(* src/circuit.py, src/eventstore.py, src/core.py, src/step.py and         *)
(* src/steps/command.py (the retry loop of a CommandStep).  src/engine.py  *)
(* repeats _resolve_dependencies, execute_process and                      *)
(* _execute_step_with_patterns of src/index.py statement for statement.    *)
(*                                                                         *)
(* Concurrency is asyncio's: a process run is a coroutine that can be      *)
(* suspended only inside the awaited step callbacks (validate, execute,    *)
(* compensate; inside execute of a CommandStep, command_func and the sleep *)
(* between two tries); the in-memory EventStore never suspends.  Every     *)
(* action of the engine is therefore the code between two such suspension  *)
(* points.                                                                 *)
(***************************************************************************)
EXTENDS Integers, Sequences, FiniteSets, TLC

(***************************************************************************)
(* Bounds of the model and constants of the program                        *)
(***************************************************************************)
MaxRuns == 1            \* process runs started under Spec (2: two live at once)
MaxGateRuns == 7        \* process runs started under SpecGate
MaxTicks == 1           \* clock advances of the engine specifications
MaxThreshold == 3       \* largest failure_threshold of SpecCB
MaxClock == 4           \* last clock value of SpecCB
MaxFailures == 4        \* record_failure calls made under SpecCB
MaxRejectRuns == 6      \* process runs started under SpecReject
MaxRetryRuns == 2       \* process runs started under SpecRetry
MaxRetryCount == 2      \* largest retry_count of a command step
MaxRetryClock == 3      \* last clock value of SpecRetry
MaxStored == 3          \* store_execution calls made under SpecStore
MaxAuditRuns == 2       \* process runs started under SpecAudit
MaxAuditStores == 1     \* direct store_execution calls made under SpecAudit
MaxLedgerRuns == 7      \* process runs started under SpecLedger
MaxLiveRuns == 2        \* process runs started under SpecLive
MaxRaceRuns == 6        \* process runs started under SpecRace

DefaultFailureThreshold == 5     \* CircuitBreaker.__init__(failure_threshold=5)
DefaultTimeout == 60             \* CircuitBreaker.__init__(timeout=60)
NoTime == -1                     \* last_failure_time = None

None == "None"                   \* Python's None where a string may stand

StepIds == {"V", "C", "N"}
Procs == {"p1", "p2"}            \* coroutines (runs) that may be live at once

VARIABLES
  now,               \* datetime.now().timestamp()
  circuit_breakers,  \* ProcessEngine.circuit_breakers: step_id -> CircuitBreaker
  events,            \* EventStore.events
  next_pid,          \* number of Contexts created so far (a fresh process_id each)
  pc,                \* per run: where the coroutine is suspended
  process_id,        \* per run: context.process_id
  data,              \* per run: context.data
  execution_trace,   \* per run: context.execution_trace
  steps,             \* per run: the step list built from the definition
  execution_order,   \* per run: local of execute_process
  idx,               \* per run: position of the for loop in execution_order
  executed_steps,    \* per run: local of execute_process
  execution_record,  \* per run: local of _execute_step_with_patterns
  comp_idx,          \* per run: position of the reversed() sweep
  error,             \* per run: the exception execute_process raised, or None
  calls,             \* per run: the calls made into the breaker and the step, in order
  comp_log,          \* per run: the logger lines of the compensation sweep
  half_open_admits,  \* per step_id: attempts admitted since the breaker went HALF_OPEN
  attempt,           \* per run: loop variable of CommandStep._execute_with_retry
  tries,             \* per run: the command_func invocations made, with their outcome
  wake_at,           \* per run: when the asyncio.sleep it is suspended in is over
  step_type,         \* per step_id: "command" for a CommandStep, "step" for any Step
  retry_count,       \* per step_id: Step.retry_count
  es_last,           \* the last direct call on the EventStore and what it returned
  es_calls,          \* direct store_execution calls so far
  cb_last,           \* SpecCB: the last call made on the breaker and what it returned
  cb_consec,         \* SpecCB: record_failure calls since the last record_success
  cb_total,          \* SpecCB: record_failure calls so far
  r_steps,           \* SpecResolve: the steps argument
  r_scan,            \* SpecResolve: iteration order of set(steps)
  r_resolved,        \* SpecResolve: local resolved
  r_unresolved,      \* SpecResolve: local unresolved
  r_passes,          \* SpecResolve: iterations of the while loop so far
  r_status           \* SpecResolve: "running", "returned" or "raised"

vars == <<now, circuit_breakers, events, next_pid, pc, process_id, data,
          execution_trace, steps, execution_order, idx, executed_steps,
          execution_record, comp_idx, error, calls, comp_log,
          half_open_admits, attempt, tries, wake_at, step_type, retry_count,
          es_last, es_calls, cb_last, cb_consec, cb_total, r_steps, r_scan,
          r_resolved, r_unresolved, r_passes, r_status>>

engineVars == <<circuit_breakers, events, next_pid, pc, process_id, data,
                execution_trace, steps, execution_order, idx, executed_steps,
                execution_record, comp_idx, error, calls, comp_log,
                half_open_admits, attempt, tries, wake_at>>
stepVars == <<step_type, retry_count>>
storeVars == <<es_last, es_calls>>
cbVars == <<cb_last, cb_consec, cb_total>>
resolveVars == <<r_steps, r_scan, r_resolved, r_unresolved, r_passes, r_status>>

(***************************************************************************)
(* Helpers on sequences                                                    *)
(***************************************************************************)
Range(s) == {s[i] : i \in DOMAIN s}

Reverse(s) == [i \in 1..Len(s) |-> s[Len(s) + 1 - i]]

Perms(S) == {q \in [1..Cardinality(S) -> S] : Range(q) = S}

(***************************************************************************)
(* CircuitBreaker (src/circuit.py; the same class is in src/index.py)      *)
(***************************************************************************)
CircuitBreaker(threshold, tmo) ==
  [failure_threshold |-> threshold, timeout |-> tmo, failure_count |-> 0,
   last_failure_time |-> NoTime, state |-> "CLOSED"]

\* can_execute with the timeout compared by >= (the window closes one tick early)
can_execute_ge(cb, t) ==
  IF cb.state = "CLOSED" THEN [ret |-> TRUE, cb |-> cb]
  ELSE IF cb.state = "OPEN" THEN
    IF t - (IF cb.last_failure_time = NoTime THEN 0 ELSE cb.last_failure_time)
         >= cb.timeout
    THEN [ret |-> TRUE, cb |-> [cb EXCEPT !.state = "HALF_OPEN"]]
    ELSE [ret |-> FALSE, cb |-> cb]
  ELSE [ret |-> TRUE, cb |-> cb]

\* can_execute without the timeout test: an OPEN breaker rejects for good
can_execute_stuck(cb, t) ==
  IF cb.state = "CLOSED" THEN [ret |-> TRUE, cb |-> cb]
  ELSE IF cb.state = "OPEN" THEN [ret |-> FALSE, cb |-> cb]
  ELSE [ret |-> TRUE, cb |-> cb]

\* can_execute(): the value returned and the breaker afterwards
can_execute(cb, t) ==
  IF cb.state = "CLOSED" THEN [ret |-> TRUE, cb |-> cb]
  ELSE IF cb.state = "OPEN" THEN
    IF t - (IF cb.last_failure_time = NoTime THEN 0 ELSE cb.last_failure_time)
         > cb.timeout
    THEN [ret |-> TRUE, cb |-> [cb EXCEPT !.state = "HALF_OPEN"]]
    ELSE [ret |-> FALSE, cb |-> cb]
  ELSE [ret |-> TRUE, cb |-> cb]

\* record_success that closes the breaker and forgets to reset the count
record_success_keep_count(cb) == [cb EXCEPT !.state = "CLOSED"]

record_success(cb) == [cb EXCEPT !.failure_count = 0, !.state = "CLOSED"]

\* record_failure that opens only above the threshold (> for >=)
record_failure_gt(cb, t) ==
  LET n == cb.failure_count + 1 IN
  [cb EXCEPT !.failure_count = n,
             !.last_failure_time = t,
             !.state = IF n > cb.failure_threshold THEN "OPEN" ELSE @]

\* record_failure that trips a HALF_OPEN breaker at once, the failed probe
\* not counted
record_failure_probe(cb, t) ==
  IF cb.state = "HALF_OPEN"
  THEN [cb EXCEPT !.last_failure_time = t, !.state = "OPEN"]
  ELSE LET n == cb.failure_count + 1 IN
       [cb EXCEPT !.failure_count = n,
                  !.last_failure_time = t,
                  !.state = IF n >= cb.failure_threshold THEN "OPEN" ELSE @]

\* record_failure that starts the count again when it opens the breaker
record_failure_reset(cb, t) ==
  LET n == cb.failure_count + 1 IN
  IF n >= cb.failure_threshold
  THEN [cb EXCEPT !.failure_count = 0, !.last_failure_time = t, !.state = "OPEN"]
  ELSE [cb EXCEPT !.failure_count = n, !.last_failure_time = t]

\* record_failure whose count stops at the threshold: reports that come in
\* once the breaker is open are lost
record_failure_saturating(cb, t) ==
  LET n == IF cb.failure_count < cb.failure_threshold
           THEN cb.failure_count + 1 ELSE cb.failure_count
  IN [cb EXCEPT !.failure_count = n,
                !.last_failure_time = t,
                !.state = IF n >= cb.failure_threshold THEN "OPEN" ELSE @]

record_failure(cb, t) ==
  LET n == cb.failure_count + 1 IN
  [cb EXCEPT !.failure_count = n,
             !.last_failure_time = t,
             !.state = IF n >= cb.failure_threshold THEN "OPEN" ELSE @]

(***************************************************************************)
(* ProcessEngine._resolve_dependencies (src/index.py 395-413)              *)
(* A step list is a function step_id -> get_dependencies() (a set).        *)
(* set(steps) has no order of its own: scan is the order in which          *)
(* list(unresolved) yields the steps.                                      *)
(***************************************************************************)
\* eligibility with any() for all(): one resolved dependency is enough
EligibleAny(stepsOf, resolved, s) ==
  stepsOf[s] = {} \/ stepsOf[s] \cap Range(resolved) # {}

Eligible(stepsOf, resolved, s) == stepsOf[s] \subseteq Range(resolved)

\* a pass whose for loop has no else clause: with no eligible step nothing
\* is moved and nothing is raised
ResolvePassNoElse(stepsOf, scan, resolved, unresolved) ==
  LET cand == {i \in DOMAIN scan :
                 scan[i] \in unresolved /\ Eligible(stepsOf, resolved, scan[i])}
  IN IF cand = {}
     THEN [raised |-> FALSE, resolved |-> resolved, unresolved |-> unresolved]
     ELSE LET i == CHOOSE j \in cand : \A k \in cand : j <= k
          IN [raised |-> FALSE, resolved |-> Append(resolved, scan[i]),
              unresolved |-> unresolved \ {scan[i]}]

\* one iteration of `while unresolved`: the first step of the scan that is
\* eligible is moved; the for-else raises when there is none
ResolvePass(stepsOf, scan, resolved, unresolved) ==
  LET cand == {i \in DOMAIN scan :
                 scan[i] \in unresolved /\ Eligible(stepsOf, resolved, scan[i])}
  IN IF cand = {}
     THEN [raised |-> TRUE, resolved |-> resolved, unresolved |-> unresolved]
     ELSE LET i == CHOOSE j \in cand : \A k \in cand : j <= k
          IN [raised |-> FALSE, resolved |-> Append(resolved, scan[i]),
              unresolved |-> unresolved \ {scan[i]}]

RECURSIVE ResolveLoop(_, _, _, _)
ResolveLoop(stepsOf, scan, resolved, unresolved) ==
  IF unresolved = {} THEN [raised |-> FALSE, order |-> resolved]
  ELSE LET r == ResolvePass(stepsOf, scan, resolved, unresolved)
       IN IF r.raised THEN [raised |-> TRUE, order |-> <<>>]
          ELSE ResolveLoop(stepsOf, scan, r.resolved, r.unresolved)

\* a resolver that returns what it has resolved when a pass makes no progress
RECURSIVE ResolveLoopPartial(_, _, _, _)
ResolveLoopPartial(stepsOf, scan, resolved, unresolved) ==
  IF unresolved = {} THEN [raised |-> FALSE, order |-> resolved]
  ELSE LET r == ResolvePass(stepsOf, scan, resolved, unresolved)
       IN IF r.raised THEN [raised |-> FALSE, order |-> resolved]
          ELSE ResolveLoopPartial(stepsOf, scan, r.resolved, r.unresolved)

_resolve_dependencies_partial(stepsOf, scan) ==
  ResolveLoopPartial(stepsOf, scan, <<>>, DOMAIN stepsOf)

\* a resolver that returns the steps in the order of its scan, dependencies
\* not looked at
_resolve_dependencies_unordered(stepsOf, scan) == [raised |-> FALSE, order |-> scan]

_resolve_dependencies(stepsOf, scan) ==
  ResolveLoop(stepsOf, scan, <<>>, DOMAIN stepsOf)

ResolveError == "Circular dependency detected or unresolvable dependencies"

(***************************************************************************)
(* Data of a run                                                           *)
(***************************************************************************)
EmptyDict == [k \in {} |-> None]

ResultKey(s) == s \o "_result"                   \* f"{step.step_id}_result"

ExcMsg == "boom"                                 \* str(e) of an exception a step raises
ErrMsg == "err"                                  \* StepResult.error of a failing step
OutData == "out"                                 \* StepResult.data of a succeeding step
OutData2 == "out2"                               \* StepResult.data of another execution
CircuitOpenMsg == "Circuit breaker is OPEN"
ValidationMsg(s) == "Step validation failed for " \o s
ProcessFailedMsg(s, m) == "Process failed at step " \o s \o ": " \o m

\* StepExecution(step_id, process_id, started_at, input_data): the dataclass defaults
StepExecution(s, pid, t, input) ==
  [step_id |-> s, process_id |-> pid, started_at |-> t, completed_at |-> NoTime,
   input_data |-> input, output_data |-> None, status |-> "pending",
   error_message |-> None]

NoRecord == StepExecution(None, 0, NoTime, EmptyDict)

TraceEntry(rec) ==
  [step_id |-> rec.step_id, status |-> rec.status, timestamp |-> rec.completed_at]

Call(op, s) == [op |-> op, step_id |-> s]

\* the same log's entry for what an awaited callback of step s came back with
Returned(op, s, v) == [op |-> op \o ":" \o v, step_id |-> s]

(***************************************************************************)
(* EventStore (src/eventstore.py)                                          *)
(***************************************************************************)
\* a store that puts the new record in front of the ledger
store_execution_front(evs, rec) == <<rec>> \o evs

\* an append that writes at the last index it saw: the record of another
\* run that sits there is overwritten
store_execution_overwrite(evs, rec) ==
  IF evs = <<>> THEN <<rec>> ELSE [evs EXCEPT ![Len(evs)] = rec]

store_execution(evs, rec) == Append(evs, rec)

\* a history that forgets the filter on process_id
get_process_history_all(evs, pid) == evs

get_process_history(evs, pid) == SelectSeq(evs, LAMBDA e : e.process_id = pid)

\* Context(process_id=pid) (src/core.py 26-32)
Context(pid) == [process_id |-> pid, data |-> EmptyDict, execution_trace |-> <<>>]

\* sorted(events, key=lambda x: x.started_at): Python's sort is stable, records
\* of equal started_at keep their order
SortedInsert(sorted, e) ==
  LET k == Cardinality({i \in DOMAIN sorted : sorted[i].started_at <= e.started_at})
  IN SubSeq(sorted, 1, k) \o <<e>> \o SubSeq(sorted, k + 1, Len(sorted))

RECURSIVE SortedByStartedAt(_)
SortedByStartedAt(seq) ==
  IF seq = <<>> THEN <<>>
  ELSE SortedInsert(SortedByStartedAt(SubSeq(seq, 1, Len(seq) - 1)), seq[Len(seq)])

\* the for loop of replay_process (lines 18-20) over the sorted records
RECURSIVE ReplayLoop(_, _)
ReplayLoop(sorted, d) ==
  IF sorted = <<>> THEN d
  ELSE LET e == Head(sorted) IN
       ReplayLoop(Tail(sorted),
                  IF e.status = "success"
                  THEN (ResultKey(e.step_id) :> e.output_data) @@ d
                  ELSE d)

\* a replay in the order of storage (sorted() left out)
replay_process_unsorted(evs, pid) ==
  [Context(pid) EXCEPT !.data = ReplayLoop(get_process_history(evs, pid), EmptyDict)]

replay_process(evs, pid) ==
  [Context(pid) EXCEPT
     !.data = ReplayLoop(SortedByStartedAt(get_process_history(evs, pid)), EmptyDict)]

(***************************************************************************)
(* The locals and the shared objects one run reads and writes, as a record *)
(***************************************************************************)
Cur(p) ==
  [cbs |-> circuit_breakers, evs |-> events, admits |-> half_open_admits,
   pc |-> pc[p], pid |-> process_id[p], data |-> data[p],
   trace |-> execution_trace[p], steps |-> steps[p],
   order |-> execution_order[p], idx |-> idx[p],
   executed |-> executed_steps[p], rec |-> execution_record[p],
   comp_idx |-> comp_idx[p], err |-> error[p], calls |-> calls[p],
   comp_log |-> comp_log[p], attempt |-> attempt[p], tries |-> tries[p],
   wake_at |-> wake_at[p]]

Commit(p, L) ==
  /\ circuit_breakers' = L.cbs
  /\ events' = L.evs
  /\ half_open_admits' = L.admits
  /\ pc' = [pc EXCEPT ![p] = L.pc]
  /\ process_id' = [process_id EXCEPT ![p] = L.pid]
  /\ data' = [data EXCEPT ![p] = L.data]
  /\ execution_trace' = [execution_trace EXCEPT ![p] = L.trace]
  /\ steps' = [steps EXCEPT ![p] = L.steps]
  /\ execution_order' = [execution_order EXCEPT ![p] = L.order]
  /\ idx' = [idx EXCEPT ![p] = L.idx]
  /\ executed_steps' = [executed_steps EXCEPT ![p] = L.executed]
  /\ execution_record' = [execution_record EXCEPT ![p] = L.rec]
  /\ comp_idx' = [comp_idx EXCEPT ![p] = L.comp_idx]
  /\ error' = [error EXCEPT ![p] = L.err]
  /\ calls' = [calls EXCEPT ![p] = L.calls]
  /\ comp_log' = [comp_log EXCEPT ![p] = L.comp_log]
  /\ attempt' = [attempt EXCEPT ![p] = L.attempt]
  /\ tries' = [tries EXCEPT ![p] = L.tries]
  /\ wake_at' = [wake_at EXCEPT ![p] = L.wake_at]

(***************************************************************************)
(* ProcessEngine (src/index.py 238-413)                                    *)
(***************************************************************************)
\* a lookup that builds a new breaker at every call
_get_circuit_breaker_fresh(cbs, s) ==
  (s :> CircuitBreaker(DefaultFailureThreshold, DefaultTimeout)) @@ cbs

\* _get_circuit_breaker: created on first use with the class defaults
_get_circuit_breaker(cbs, s) ==
  IF s \in DOMAIN cbs THEN cbs
  ELSE (s :> CircuitBreaker(DefaultFailureThreshold, DefaultTimeout)) @@ cbs

\* a raise that names the step and drops its error message
RaiseWithoutMessage(L) ==
  [L EXCEPT !.pc = "failed", !.err = ProcessFailedMsg(L.order[L.idx], None)]

\* the raise of line 275, reached when the sweep has nothing left to do
RaiseProcessFailed(L) ==
  [L EXCEPT !.pc = "failed",
            !.err = ProcessFailedMsg(L.order[L.idx], L.rec.error_message)]

\* a sweep in the order of execution (reversed() left out)
SweepOrderForward(executed) == executed

\* `for step in reversed(executed_steps)` (line 356): the order of the sweep
SweepOrder(executed) == Reverse(executed)

\* _compensate_executed_steps from position k of the sweep on: compensate of
\* the k-th step is awaited, or the sweep is over and line 275 raises
SweepFrom(L, k) ==
  IF k > Len(L.executed) THEN RaiseProcessFailed(L)
  ELSE [L EXCEPT !.pc = "compensating", !.comp_idx = k,
                 !.calls = Append(@, Call("compensate", SweepOrder(L.executed)[k]))]

_compensate_executed_steps(L) == SweepFrom(L, 1)

\* a finally block that puts the trace entry in front of the trace
FinallyTraceFront(L) ==
  LET rec == [L.rec EXCEPT !.completed_at = now] IN
  [L EXCEPT !.rec = rec,
            !.evs = store_execution(@, rec),
            !.trace = <<TraceEntry(rec)>> \o @]

\* the finally block of _execute_step_with_patterns (lines 332-347)
Finally(L) ==
  LET rec == [L.rec EXCEPT !.completed_at = now] IN
  [L EXCEPT !.rec = rec,
            !.evs = store_execution(@, rec),
            !.trace = Append(@, TraceEntry(rec))]

\* an except block whose record is never stored: the store and the trace
\* entry sit at the end of the try block and an exception skips them
ExceptUnstored(L, msg) ==
  LET s == L.rec.step_id IN
  [L EXCEPT !.rec.status = "failed", !.rec.error_message = msg,
            !.rec.completed_at = now,
            !.cbs[s] = record_failure(@, now),
            !.calls = Append(@, Call("record_failure", s)),
            !.admits[s] = 0]

\* the except block (lines 327-330) followed by finally
Except(L, msg) ==
  LET s == L.rec.step_id IN
  Finally([L EXCEPT !.rec.status = "failed", !.rec.error_message = msg,
                    !.cbs[s] = record_failure(@, now),
                    !.calls = Append(@, Call("record_failure", s)),
                    !.admits[s] = 0])

\* lines 318-321 followed by finally
ResultSuccess(L, out) ==
  LET s == L.rec.step_id IN
  Finally([L EXCEPT !.rec.status = "success", !.rec.output_data = out,
                    !.cbs[s] = record_success(@),
                    !.calls = Append(@, Call("record_success", s)),
                    !.admits[s] = 0])

\* lines 322-325 followed by finally
ResultFailure(L, err) ==
  LET s == L.rec.step_id IN
  Finally([L EXCEPT !.rec.status = "failed", !.rec.error_message = err,
                    !.cbs[s] = record_failure(@, now),
                    !.calls = Append(@, Call("record_failure", s)),
                    !.admits[s] = 0])

\* a gate whose rejection returns the FAILED record without storing it
EnterStepUnstored(L, s) ==
  LET cbs1 == _get_circuit_breaker(L.cbs, s)
      g == can_execute(cbs1[s], now)
      consulted == [L EXCEPT !.cbs = [cbs1 EXCEPT ![s] = g.cb],
                             !.calls = Append(@, Call("can_execute", s))]
  IN IF ~g.ret
     THEN [consulted EXCEPT
             !.rec = [StepExecution(s, L.pid, now, EmptyDict) EXCEPT
                        !.completed_at = now, !.status = "failed",
                        !.error_message = CircuitOpenMsg],
             !.pc = "rejected"]
     ELSE [consulted EXCEPT
             !.rec = StepExecution(s, L.pid, now, L.data),
             !.calls = Append(@, Call("validate", s)),
             !.pc = "validating",
             !.admits[s] = IF cbs1[s].state = "OPEN" THEN 1
                           ELSE IF cbs1[s].state = "HALF_OPEN" THEN @ + 1
                           ELSE @]

\* a gate whose rejections are reported to the breaker as failures
EnterStepCounting(L, s) ==
  LET cbs1 == _get_circuit_breaker(L.cbs, s)
      g == can_execute(cbs1[s], now)
      consulted == [L EXCEPT !.cbs = [cbs1 EXCEPT ![s] = g.cb],
                             !.calls = Append(@, Call("can_execute", s))]
  IN IF ~g.ret
     THEN LET rec == [StepExecution(s, L.pid, now, EmptyDict) EXCEPT
                        !.completed_at = now, !.status = "failed",
                        !.error_message = CircuitOpenMsg]
          IN [consulted EXCEPT !.rec = rec, !.evs = store_execution(@, rec),
                               !.cbs[s] = record_failure(@, now),
                               !.pc = "rejected"]
     ELSE [consulted EXCEPT
             !.rec = StepExecution(s, L.pid, now, L.data),
             !.calls = Append(@, Call("validate", s)),
             !.pc = "validating",
             !.admits[s] = IF cbs1[s].state = "OPEN" THEN 1
                           ELSE IF cbs1[s].state = "HALF_OPEN" THEN @ + 1
                           ELSE @]

\* _execute_step_with_patterns up to its first await (lines 284-311): the gate
\* rejects and the FAILED record is stored and returned, or validate is awaited
EnterStep(L, s) ==
  LET cbs1 == _get_circuit_breaker(L.cbs, s)
      g == can_execute(cbs1[s], now)
      consulted == [L EXCEPT !.cbs = [cbs1 EXCEPT ![s] = g.cb],
                             !.calls = Append(@, Call("can_execute", s))]
  IN IF ~g.ret
     THEN LET rec == [StepExecution(s, L.pid, now, EmptyDict) EXCEPT
                        !.completed_at = now, !.status = "failed",
                        !.error_message = CircuitOpenMsg]
          IN [consulted EXCEPT !.rec = rec, !.evs = store_execution(@, rec),
                               !.pc = "rejected"]
     ELSE [consulted EXCEPT
             !.rec = StepExecution(s, L.pid, now, L.data),
             !.calls = Append(@, Call("validate", s)),
             !.pc = "validating",
             !.admits[s] = IF cbs1[s].state = "OPEN" THEN 1
                           ELSE IF cbs1[s].state = "HALF_OPEN" THEN @ + 1
                           ELSE @]

RECURSIVE RunFrom(_)
\* a loop body that logs the failure and goes on to the next step
OnRecordContinue(L) ==
  IF L.rec.status = "success"
  THEN RunFrom([L EXCEPT !.executed = Append(@, L.order[L.idx]),
                         !.data = (ResultKey(L.order[L.idx]) :> L.rec.output_data) @@ @,
                         !.idx = @ + 1])
  ELSE RunFrom([L EXCEPT !.idx = @ + 1])

\* a loop body that keeps the step's output out of context.data
OnRecordNoResult(L) ==
  IF L.rec.status = "success"
  THEN RunFrom([L EXCEPT !.executed = Append(@, L.order[L.idx]),
                         !.idx = @ + 1])
  ELSE _compensate_executed_steps(L)

\* a loop body that gives a step that failed one more attempt before it
\* compensates
OnRecordRetryOnce(L) ==
  IF L.rec.status = "success"
  THEN RunFrom([L EXCEPT !.executed = Append(@, L.order[L.idx]),
                         !.data = (ResultKey(L.order[L.idx]) :> L.rec.output_data) @@ @,
                         !.idx = @ + 1])
  ELSE IF Len(SelectSeq(L.evs, LAMBDA e : e.process_id = L.pid
                                          /\ e.step_id = L.rec.step_id)) < 2
  THEN RunFrom(L)
  ELSE _compensate_executed_steps(L)

\* the body of the for loop once _execute_step_with_patterns has returned
\* (lines 267-275)
OnRecord(L) ==
  IF L.rec.status = "success"
  THEN RunFrom([L EXCEPT !.executed = Append(@, L.order[L.idx]),
                         !.data = (ResultKey(L.order[L.idx]) :> L.rec.output_data) @@ @,
                         !.idx = @ + 1])
  ELSE _compensate_executed_steps(L)

\* `for step in execution_order` from position L.idx, up to the next await
\* (lines 264-278)
RunFrom(L) ==
  IF L.idx > Len(L.order) THEN [L EXCEPT !.pc = "returned"]
  ELSE LET L1 == EnterStep(L, L.order[L.idx])
       IN IF L1.pc = "validating" THEN L1 ELSE OnRecord(L1)

\* execute_process up to its first await (lines 246-265)
execute_process(L, stepsOf, scan) ==
  LET r == _resolve_dependencies(stepsOf, scan)
  IN IF r.raised THEN [L EXCEPT !.steps = stepsOf, !.pc = "failed", !.err = ResolveError]
     ELSE RunFrom([L EXCEPT !.steps = stepsOf, !.order = r.order])

(***************************************************************************)
(* CommandStep.execute and _execute_with_retry (src/steps/command.py 12-29)*)
(***************************************************************************)
Try(s, a, c, d) == [step_id |-> s, attempt |-> a, outcome |-> c, sleep |-> d]

\* `for attempt in range(self.retry_count + 1)` at loop variable a: command_func
\* is awaited; when the range is over (it is only when it is empty) the
\* function falls off its end and execute returns StepResult(True, data=None)
_execute_with_retry(L, a) ==
  LET s == L.rec.step_id IN
  IF a >= retry_count[s] + 1
  THEN OnRecord(ResultSuccess(L, None))
  ELSE [L EXCEPT !.attempt = a, !.pc = "command",
                 !.calls = Append(@, Call("command_func", s))]

CommandOutcomes == {"return", "raise"}

\* a retry loop that gives up one try early (attempt + 1 compared with
\* retry_count)
command_returned_short(L, c) ==
  LET s == L.rec.step_id
      a == L.attempt
  IN IF c = "return"
     THEN OnRecord(ResultSuccess([L EXCEPT !.tries = Append(@, Try(s, a, c, 0))],
                                 OutData))
     ELSE IF a + 1 >= retry_count[s]
     THEN OnRecord(ResultFailure([L EXCEPT !.tries = Append(@, Try(s, a, c, 0))],
                                 ExcMsg))
     ELSE [L EXCEPT !.tries = Append(@, Try(s, a, c, 2^a)),
                    !.pc = "sleeping", !.wake_at = now + 2^a]

\* await self.command_func(context) is over (lines 23-29 and 15-17): its value
\* is the step's result, or it raised and the last try's exception is the
\* step's error, or the coroutine sleeps 2 ** attempt
command_returned(L, c) ==
  LET s == L.rec.step_id
      a == L.attempt
  IN IF c = "return"
     THEN OnRecord(ResultSuccess([L EXCEPT !.tries = Append(@, Try(s, a, c, 0))],
                                 OutData))
     ELSE IF a = retry_count[s]
     THEN OnRecord(ResultFailure([L EXCEPT !.tries = Append(@, Try(s, a, c, 0))],
                                 ExcMsg))
     ELSE [L EXCEPT !.tries = Append(@, Try(s, a, c, 2^a)),
                    !.pc = "sleeping", !.wake_at = now + 2^a]

\* await asyncio.sleep(2 ** attempt) is over: the next iteration
sleep_returned(L) == _execute_with_retry(L, L.attempt + 1)

(***************************************************************************)
(* What the awaited step callbacks can do                                  *)
(***************************************************************************)
ValidateOutcomes == {"true", "false", "raise"}
ExecuteOutcomes == {"success", "failure", "raise"}
CompensateOutcomes == {"ok", "failed", "raise"}

\* a validation whose value is not looked at: execute is awaited unless
\* validate raised
validate_returned_ignored(L, v) ==
  LET s == L.rec.step_id
      back == [L EXCEPT !.calls = Append(@, Returned("validate", s, v))]
  IN IF v \in {"true", "false"}
     THEN LET L1 == [back EXCEPT !.rec.status = "running",
                                 !.calls = Append(@, Call("execute", s))]
          IN IF step_type[s] = "command" THEN _execute_with_retry(L1, 0)
             ELSE [L1 EXCEPT !.pc = "executing"]
     ELSE OnRecord(Except(back, ExcMsg))

\* await step.validate(context) is over (lines 311-316): execute is awaited,
\* which for a CommandStep is the first iteration of its retry loop
validate_returned(L, v) ==
  LET s == L.rec.step_id
      back == [L EXCEPT !.calls = Append(@, Returned("validate", s, v))]
  IN IF v = "true"
     THEN LET L1 == [back EXCEPT !.rec.status = "running",
                                 !.calls = Append(@, Call("execute", s))]
          IN IF step_type[s] = "command" THEN _execute_with_retry(L1, 0)
             ELSE [L1 EXCEPT !.pc = "executing"]
     ELSE IF v = "false" THEN OnRecord(Except(back, ValidationMsg(s)))
     ELSE OnRecord(Except(back, ExcMsg))

\* an attempt without the except block: an exception of execute leaves
\* _execute_step_with_patterns and execute_process as it is
execute_returned_escaping(L, r) ==
  LET back == [L EXCEPT !.calls = Append(@, Returned("execute", L.rec.step_id, r))]
  IN IF r = "success" THEN OnRecord(ResultSuccess(back, OutData))
     ELSE IF r = "failure" THEN OnRecord(ResultFailure(back, ErrMsg))
     ELSE [back EXCEPT !.pc = "failed", !.err = ExcMsg]

\* await step.execute(context) is over (lines 316-330)
execute_returned(L, r) ==
  LET back == [L EXCEPT !.calls = Append(@, Returned("execute", L.rec.step_id, r))]
  IN IF r = "success" THEN OnRecord(ResultSuccess(back, OutData))
     ELSE IF r = "failure" THEN OnRecord(ResultFailure(back, ErrMsg))
     ELSE OnRecord(Except(back, ExcMsg))

\* a sweep without the try/except: a compensation that raises ends the sweep
\* and its exception is what execute_process raises
compensate_returned_abort(L, c) ==
  LET logged == [L EXCEPT !.comp_log =
                   Append(@, [step_id |-> SweepOrder(L.executed)[L.comp_idx],
                              outcome |-> c])]
  IN IF c = "raise" THEN [logged EXCEPT !.pc = "failed", !.err = ExcMsg]
     ELSE SweepFrom(logged, L.comp_idx + 1)

\* await step.compensate(context) is over (lines 357-364): one logger line,
\* whatever the outcome, and the sweep goes on
\* a sweep that takes the result entry of the step it compensated out of the
\* context
compensate_returned_undo(L, c) ==
  LET s == SweepOrder(L.executed)[L.comp_idx]
      kept == [k \in DOMAIN L.data \ {ResultKey(s)} |-> L.data[k]]
  IN SweepFrom([L EXCEPT !.data = kept,
                         !.comp_log = Append(@, [step_id |-> s, outcome |-> c])],
               L.comp_idx + 1)

\* a sweep that marks the ledger record of the step it compensated
compensate_returned_marking(L, c) ==
  LET s == SweepOrder(L.executed)[L.comp_idx]
      marked == [i \in DOMAIN L.evs |->
                   IF L.evs[i].process_id = L.pid /\ L.evs[i].step_id = s
                   THEN [L.evs[i] EXCEPT !.status = "compensated"]
                   ELSE L.evs[i]]
  IN SweepFrom([L EXCEPT !.evs = marked,
                         !.comp_log = Append(@, [step_id |-> s, outcome |-> c])],
               L.comp_idx + 1)

compensate_returned(L, c) ==
  SweepFrom([L EXCEPT !.comp_log =
                        Append(@, [step_id |-> SweepOrder(L.executed)[L.comp_idx],
                                   outcome |-> c])],
            L.comp_idx + 1)

(***************************************************************************)
(* Workloads                                                               *)
(***************************************************************************)
Chain == ("V" :> {}) @@ ("C" :> {"V"}) @@ ("N" :> {"C"})
Pair == ("V" :> {}) @@ ("C" :> {})
Cycle == ("V" :> {"C"}) @@ ("C" :> {"V"})
Missing == ("V" :> {}) @@ ("C" :> {"N"})
SelfDep == ("V" :> {"V"})
Single == ("V" :> {})
Guarded == ("V" :> {}) @@ ("C" :> {"V"})

Definitions == {Chain, Pair, Cycle, Missing, SelfDep}
GateDefinitions == {Single}
DataInputs == {("email" :> "a@b")}
GateDataInputs == {EmptyDict}
RejectDefinitions == {Guarded}
RejectOutcomes == ("V" :> "success") @@ ("C" :> "failure")
RetryDefinitions == {Single}

\* records a caller of the EventStore may store: every status and two outputs
\* for two steps of process 1, started at either of two instants, and records
\* of a second process
Stored(pid, s, t, st, out) ==
  [StepExecution(s, pid, t, EmptyDict) EXCEPT
     !.completed_at = t, !.status = st, !.output_data = out,
     !.error_message = IF st = "failed" THEN ErrMsg ELSE None]

StoreRecords ==
  {Stored(1, s, t, "success", out) : s \in {"V", "C"}, t \in {0, 1},
                                     out \in {OutData, OutData2}}
  \cup {Stored(1, s, t, st, None) : s \in {"V", "C"}, t \in {0, 1},
                                    st \in {"failed", "compensated"}}
  \cup {Stored(2, "V", 0, "success", OutData), Stored(2, "V", 0, "failed", None)}
StorePids == {1, 2}
AuditRecords == {Stored(1, "V", 0, "success", OutData2)}

StepLists == UNION {[S -> SUBSET StepIds] : S \in SUBSET StepIds}

(***************************************************************************)
(* Actions of the engine                                                   *)
(***************************************************************************)
NotEngine == UNCHANGED <<stepVars, storeVars, cbVars, resolveVars>>

\* a caller awaits engine.execute_process(definition, Context(data=d0))
Start(p, defs, inputs, limit) ==
  /\ pc[p] \in {"idle", "returned", "failed"}
  /\ next_pid <= limit
  /\ \E stepsOf \in defs, d0 \in inputs :
       \E scan \in Perms(DOMAIN stepsOf) :
         Commit(p, execute_process(
                     [Cur(p) EXCEPT !.pid = next_pid, !.data = d0, !.trace = <<>>,
                                    !.order = <<>>, !.idx = 1, !.executed = <<>>,
                                    !.rec = NoRecord, !.comp_idx = 0, !.err = None,
                                    !.calls = <<>>, !.comp_log = <<>>,
                                    !.attempt = 0, !.tries = <<>>, !.wake_at = 0],
                     stepsOf, scan))
  /\ next_pid' = next_pid + 1
  /\ UNCHANGED now
  /\ NotEngine

ValidateDone(p, outcomes) ==
  /\ pc[p] = "validating"
  /\ \E v \in outcomes : Commit(p, validate_returned(Cur(p), v))
  /\ UNCHANGED <<now, next_pid>>
  /\ NotEngine

ExecuteDone(p, outcomes) ==
  /\ pc[p] = "executing"
  /\ \E r \in outcomes : Commit(p, execute_returned(Cur(p), r))
  /\ UNCHANGED <<now, next_pid>>
  /\ NotEngine

CompensateDone(p, outcomes) ==
  /\ pc[p] = "compensating"
  /\ \E c \in outcomes : Commit(p, compensate_returned(Cur(p), c))
  /\ UNCHANGED <<now, next_pid>>
  /\ NotEngine

\* execute of a step whose outcome is fixed by its step_id
ExecuteDoneAs(p, outcomeOf) ==
  /\ pc[p] = "executing"
  /\ Commit(p, execute_returned(Cur(p), outcomeOf[execution_record[p].step_id]))
  /\ UNCHANGED <<now, next_pid>>
  /\ NotEngine

CommandDone(p, outcomes) ==
  /\ pc[p] = "command"
  /\ \E c \in outcomes : Commit(p, command_returned(Cur(p), c))
  /\ UNCHANGED <<now, next_pid>>
  /\ NotEngine

SleepDone(p) ==
  /\ pc[p] = "sleeping"
  /\ now >= wake_at[p]
  /\ Commit(p, sleep_returned(Cur(p)))
  /\ UNCHANGED <<now, next_pid>>
  /\ NotEngine

(***************************************************************************)
(* Direct calls on the EventStore (src/eventstore.py)                      *)
(***************************************************************************)
EsCall(op, pid) ==
  [op |-> op, process_id |-> pid, at |-> Len(events), execution |-> NoRecord,
   history |-> <<>>, context |-> Context(0)]

EsFrame == UNCHANGED <<now, engineVars, stepVars, cbVars, resolveVars>>

\* await event_store.store_execution(rec)
EsStore(rec, limit) ==
  /\ es_calls < limit
  /\ events' = store_execution(events, rec)
  /\ es_last' = [EsCall("store_execution", rec.process_id) EXCEPT !.execution = rec]
  /\ es_calls' = es_calls + 1
  /\ UNCHANGED <<now, circuit_breakers, next_pid, pc, process_id, data,
                 execution_trace, steps, execution_order, idx, executed_steps,
                 execution_record, comp_idx, error, calls, comp_log,
                 half_open_admits, attempt, tries, wake_at, stepVars, cbVars,
                 resolveVars>>

\* await event_store.get_process_history(pid)
EsHistory(pid) ==
  /\ es_last' = [EsCall("get_process_history", pid) EXCEPT
                   !.history = get_process_history(events, pid)]
  /\ UNCHANGED es_calls
  /\ EsFrame

\* a replay that takes the records it replays out of the ledger
EsReplayConsuming(pid) ==
  /\ es_last' = [EsCall("replay_process", pid) EXCEPT
                   !.context = replay_process(events, pid)]
  /\ events' = SelectSeq(events, LAMBDA e : e.process_id # pid)
  /\ UNCHANGED <<now, es_calls, circuit_breakers, next_pid, pc, process_id, data,
                 execution_trace, steps, execution_order, idx, executed_steps,
                 execution_record, comp_idx, error, calls, comp_log,
                 half_open_admits, attempt, tries, wake_at, stepVars, cbVars,
                 resolveVars>>

\* await event_store.replay_process(pid)
EsReplay(pid) ==
  /\ es_last' = [EsCall("replay_process", pid) EXCEPT
                   !.context = replay_process(events, pid)]
  /\ UNCHANGED es_calls
  /\ EsFrame

\* time passes
Tick(d, limit) ==
  /\ now + d <= limit
  /\ now' = now + d
  /\ UNCHANGED <<engineVars, stepVars, storeVars, cbVars, resolveVars>>

(***************************************************************************)
(* Initial states                                                          *)
(***************************************************************************)
\* ProcessEngine.__init__ (lines 241-244): no breaker yet
BreakersInit == circuit_breakers = EmptyDict

\* an empty ledger and no run started
RunsInit ==
  /\ events = <<>>
  /\ next_pid = 1
  /\ pc = [p \in Procs |-> "idle"]
  /\ process_id = [p \in Procs |-> 0]
  /\ data = [p \in Procs |-> EmptyDict]
  /\ execution_trace = [p \in Procs |-> <<>>]
  /\ steps = [p \in Procs |-> EmptyDict]
  /\ execution_order = [p \in Procs |-> <<>>]
  /\ idx = [p \in Procs |-> 1]
  /\ executed_steps = [p \in Procs |-> <<>>]
  /\ execution_record = [p \in Procs |-> NoRecord]
  /\ comp_idx = [p \in Procs |-> 0]
  /\ error = [p \in Procs |-> None]
  /\ calls = [p \in Procs |-> <<>>]
  /\ comp_log = [p \in Procs |-> <<>>]
  /\ half_open_admits = [s \in StepIds |-> 0]
  /\ attempt = [p \in Procs |-> 0]
  /\ tries = [p \in Procs |-> <<>>]
  /\ wake_at = [p \in Procs |-> 0]

\* Step.__init__ (src/step.py 7-10): steps of the base class, retry_count = 0
StepsInit ==
  /\ step_type = [s \in StepIds |-> "step"]
  /\ retry_count = [s \in StepIds |-> 0]

StoreIdle ==
  /\ es_last = [op |-> "none", process_id |-> 0, at |-> 0, execution |-> NoRecord,
                history |-> <<>>, context |-> Context(0)]
  /\ es_calls = 0

CbIdle ==
  /\ cb_last = [op |-> "none", ret |-> FALSE, from |-> "CLOSED"]
  /\ cb_consec = 0
  /\ cb_total = 0

ResolveIdle ==
  /\ r_steps = EmptyDict
  /\ r_scan = <<>>
  /\ r_resolved = <<>>
  /\ r_unresolved = {}
  /\ r_passes = 0
  /\ r_status = "idle"

EngineInit == BreakersInit /\ RunsInit

Init == now = 0 /\ EngineInit /\ StepsInit /\ StoreIdle /\ CbIdle /\ ResolveIdle

(***************************************************************************)
(* Spec: the engine serving concurrent runs of the general workload        *)
(***************************************************************************)
Next ==
  \/ \E p \in Procs : Start(p, Definitions, DataInputs, MaxRuns)
  \/ \E p \in Procs : ValidateDone(p, ValidateOutcomes)
  \/ \E p \in Procs : ExecuteDone(p, ExecuteOutcomes)
  \/ \E p \in Procs : CompensateDone(p, CompensateOutcomes)

Spec == Init /\ [][Next]_vars

(***************************************************************************)
(* SpecGate: many runs of a one-step process whose operation keeps         *)
(* failing, enough of them to open the step's breaker (the engine builds   *)
(* every breaker with the defaults), and the clock                         *)
(***************************************************************************)
NextGate ==
  \/ \E p \in Procs : Start(p, GateDefinitions, GateDataInputs, MaxGateRuns)
  \/ \E p \in Procs : ValidateDone(p, {"true"})
  \/ \E p \in Procs : ExecuteDone(p, {"failure"})
  \/ Tick(DefaultTimeout + 1, MaxTicks * (DefaultTimeout + 1))

SpecGate == Init /\ [][NextGate]_vars

(***************************************************************************)
(* SpecReject: runs of a two-step process whose first step succeeds and    *)
(* whose second step keeps failing until its breaker opens                 *)
(***************************************************************************)
NextReject ==
  \/ \E p \in Procs : Start(p, RejectDefinitions, DataInputs, MaxRejectRuns)
  \/ \E p \in Procs : ValidateDone(p, {"true"})
  \/ \E p \in Procs : ExecuteDoneAs(p, RejectOutcomes)
  \/ \E p \in Procs : CompensateDone(p, {"ok"})

SpecReject == Init /\ [][NextReject]_vars

(***************************************************************************)
(* SpecRetry: runs of a one-step process whose step is a CommandStep, for  *)
(* every retry_count from -1 (the factory takes any max_attempts) on       *)
(***************************************************************************)
InitRetry ==
  /\ now = 0 /\ EngineInit /\ StoreIdle /\ CbIdle /\ ResolveIdle
  /\ step_type = [s \in StepIds |-> "command"]
  /\ \E r \in -1..MaxRetryCount : retry_count = [s \in StepIds |-> r]

NextRetry ==
  \/ \E p \in Procs : Start(p, RetryDefinitions, GateDataInputs, MaxRetryRuns)
  \/ \E p \in Procs : ValidateDone(p, {"true", "false"})
  \/ \E p \in Procs : CommandDone(p, CommandOutcomes)
  \/ \E p \in Procs : SleepDone(p)
  \/ Tick(1, MaxRetryClock)

SpecRetry == InitRetry /\ [][NextRetry]_vars

(***************************************************************************)
(* SpecStore: an EventStore driven directly through its three methods      *)
(***************************************************************************)
NextStore ==
  \/ \E rec \in StoreRecords : EsStore(rec, MaxStored)
  \/ \E pid \in StorePids : EsHistory(pid)
  \/ \E pid \in StorePids : EsReplay(pid)

SpecStore == Init /\ [][NextStore]_vars

(***************************************************************************)
(* SpecAudit: the ledger written by concurrent runs and by a direct caller *)
(* while it is read and replayed                                           *)
(***************************************************************************)
NextAudit ==
  \/ \E p \in Procs : Start(p, RejectDefinitions, GateDataInputs, MaxAuditRuns)
  \/ \E p \in Procs : ValidateDone(p, {"true"})
  \/ \E p \in Procs : ExecuteDoneAs(p, RejectOutcomes)
  \/ \E p \in Procs : CompensateDone(p, {"ok"})
  \/ \E rec \in AuditRecords : EsStore(rec, MaxAuditStores)
  \/ \E pid \in 1..MaxAuditRuns : EsHistory(pid)
  \/ \E pid \in 1..MaxAuditRuns : EsReplay(pid)

SpecAudit == Init /\ [][NextAudit]_vars

(***************************************************************************)
(* SpecLedger: one caller running a one-step process again and again, the  *)
(* step's validate and execute free to come back in every way, until the   *)
(* step's breaker opens and rejects                                        *)
(***************************************************************************)
Solo == {"p1"}

NextLedger ==
  \/ \E p \in Solo : Start(p, GateDefinitions, GateDataInputs, MaxLedgerRuns)
  \/ \E p \in Solo : ValidateDone(p, ValidateOutcomes)
  \/ \E p \in Solo : ExecuteDone(p, ExecuteOutcomes)

SpecLedger == Init /\ [][NextLedger]_vars

(***************************************************************************)
(* SpecRace: concurrent runs of a one-step process whose operation         *)
(* succeeds for some runs and fails for others                             *)
(***************************************************************************)
NextRace ==
  \/ \E p \in Procs : Start(p, GateDefinitions, GateDataInputs, MaxRaceRuns)
  \/ \E p \in Procs : ValidateDone(p, {"true"})
  \/ \E p \in Procs : ExecuteDone(p, {"success", "failure"})

SpecRace == Init /\ [][NextRace]_vars

(***************************************************************************)
(* SpecLive: one caller running the general workload, every callback the   *)
(* engine awaits coming back in the end                                    *)
(***************************************************************************)
NextLive ==
  \/ \E p \in Solo : Start(p, Definitions, DataInputs, MaxLiveRuns)
  \/ \E p \in Solo : ValidateDone(p, ValidateOutcomes)
  \/ \E p \in Solo : ExecuteDone(p, ExecuteOutcomes)
  \/ \E p \in Solo : CompensateDone(p, CompensateOutcomes)

\* a callback that run p awaits comes back and the run moves on. On the steps
\* of NextLive this is a step of ValidateDone, ExecuteDone or CompensateDone
\* of p, and it is enabled exactly when one of them is; it is stated on the
\* run's position alone, so that its enabling condition is read off the state
Awaiting == {"validating", "executing", "compensating"}

CallbackDone(p) ==
  /\ pc[p] \in Awaiting
  /\ \E v \in Awaiting \cup {"returned", "failed"}, k \in 0..Cardinality(StepIds) :
       /\ pc' = [pc EXCEPT ![p] = v]
       /\ comp_idx' = [comp_idx EXCEPT ![p] = k]
       /\ <<v, k>> # <<pc[p], comp_idx[p]>>

SpecLive ==
  Init /\ [][NextLive]_vars /\ \A p \in Solo : WF_<<pc, comp_idx>>(CallbackDone(p))

(***************************************************************************)
(* SpecCB: one CircuitBreaker driven directly through its three methods    *)
(***************************************************************************)
CbTimeouts == {1, 2}

TheBreaker == circuit_breakers["V"]

CbCanExecute ==
  LET g == can_execute(TheBreaker, now) IN
  /\ circuit_breakers' = [circuit_breakers EXCEPT !["V"] = g.cb]
  /\ cb_last' = [op |-> "can_execute", ret |-> g.ret, from |-> TheBreaker.state]
  /\ UNCHANGED <<now, cb_consec, cb_total>>

CbRecordSuccess ==
  /\ circuit_breakers' = [circuit_breakers EXCEPT !["V"] = record_success(@)]
  /\ cb_last' = [op |-> "record_success", ret |-> FALSE, from |-> TheBreaker.state]
  /\ cb_consec' = 0
  /\ UNCHANGED <<now, cb_total>>

CbRecordFailure ==
  /\ cb_total < MaxFailures
  /\ circuit_breakers' = [circuit_breakers EXCEPT !["V"] = record_failure(@, now)]
  /\ cb_last' = [op |-> "record_failure", ret |-> FALSE, from |-> TheBreaker.state]
  /\ cb_consec' = cb_consec + 1
  /\ cb_total' = cb_total + 1
  /\ UNCHANGED now

CbFrame ==
  UNCHANGED <<events, next_pid, pc, process_id, data, execution_trace, steps,
              execution_order, idx, executed_steps, execution_record, comp_idx,
              error, calls, comp_log, half_open_admits, attempt, tries, wake_at,
              stepVars, storeVars, resolveVars>>

InitCB ==
  /\ now = 0
  /\ RunsInit
  /\ \E T \in 1..MaxThreshold, tmo \in CbTimeouts :
       circuit_breakers = ("V" :> CircuitBreaker(T, tmo))
  /\ StepsInit
  /\ StoreIdle
  /\ CbIdle
  /\ ResolveIdle

NextCB ==
  \/ CbCanExecute /\ CbFrame
  \/ CbRecordSuccess /\ CbFrame
  \/ CbRecordFailure /\ CbFrame
  \/ Tick(1, MaxClock)

SpecCB == InitCB /\ [][NextCB]_vars

(***************************************************************************)
(* SpecProbe: SpecCB with callers that keep coming to the gate: a          *)
(* can_execute call that would change something is made in the end         *)
(***************************************************************************)
SpecProbe == InitCB /\ [][NextCB]_vars /\ WF_vars(CbCanExecute /\ CbFrame)

(***************************************************************************)
(* SpecResolve: _resolve_dependencies alone, one pass of its while loop at *)
(* a time, on every step list over StepIds and every iteration order       *)
(***************************************************************************)
ResolveFrame ==
  UNCHANGED <<now, engineVars, stepVars, storeVars, cbVars, r_steps, r_scan>>

\* `while unresolved` is entered: one pass
ResolveIterate ==
  /\ r_status = "running"
  /\ r_unresolved # {}
  /\ LET r == ResolvePass(r_steps, r_scan, r_resolved, r_unresolved) IN
       /\ r_resolved' = r.resolved
       /\ r_unresolved' = r.unresolved
       /\ r_status' = IF r.raised THEN "raised" ELSE "running"
  /\ r_passes' = r_passes + 1
  /\ ResolveFrame

\* `while unresolved` is left: return resolved
ResolveReturn ==
  /\ r_status = "running"
  /\ r_unresolved = {}
  /\ r_status' = "returned"
  /\ UNCHANGED <<r_resolved, r_unresolved, r_passes>>
  /\ ResolveFrame

InitResolve ==
  /\ now = 0 /\ EngineInit /\ StepsInit /\ StoreIdle /\ CbIdle
  /\ r_steps \in StepLists
  /\ r_scan \in Perms(DOMAIN r_steps)
  /\ r_resolved = <<>>
  /\ r_unresolved = DOMAIN r_steps
  /\ r_passes = 0
  /\ r_status = "running"

NextResolve == ResolveIterate \/ ResolveReturn

SpecResolve == InitResolve /\ [][NextResolve]_vars

(***************************************************************************)
(* What a run has done, read from the ledger and from its calls            *)
(***************************************************************************)
IsPrefix(a, b) == Len(a) <= Len(b) /\ \A i \in 1..Len(a) : a[i] = b[i]

StepsOf(seq) == [i \in 1..Len(seq) |-> seq[i].step_id]

History(p) == get_process_history(events, process_id[p])

\* the steps of the run that ended SUCCESS, in the order they did
Succeeded(p) == StepsOf(SelectSeq(History(p), LAMBDA e : e.status = "success"))

\* the steps compensate was invoked on, in the order of the calls
Compensated(p) == StepsOf(SelectSeq(calls[p], LAMBDA c : c.op = "compensate"))

\* a step of the run has ended with a status other than SUCCESS
StepFailed(p) == \E i \in 1..Len(History(p)) : History(p)[i].status # "success"

DepsClosed(stepsOf) == \A s \in DOMAIN stepsOf : stepsOf[s] \subseteq DOMAIN stepsOf

\* acyclic: the steps can be ranked with every dependency below its dependant
Acyclic(stepsOf) ==
  \E rank \in [DOMAIN stepsOf -> 1..Cardinality(DOMAIN stepsOf)] :
    \A s \in DOMAIN stepsOf : \A d \in stepsOf[s] \cap DOMAIN stepsOf :
      rank[d] < rank[s]

Resolvable(stepsOf) == DepsClosed(stepsOf) /\ Acyclic(stepsOf)

\* the ledger records of step s in run p
RecordsOf(p, s) == SelectSeq(History(p), LAMBDA e : e.step_id = s)

\* the outcomes run p has reported to the breaker of step s
ReportsOf(p, s) ==
  SelectSeq(calls[p], LAMBDA c : c.step_id = s
                                  /\ c.op \in {"record_success", "record_failure"})

\* the command_func invocations of step s in run p
TriesOf(p, s) == SelectSeq(tries[p], LAMBDA t : t.step_id = s)

\* run p is inside its attempt of step s
InAttempt(p, s) ==
  /\ pc[p] \in {"validating", "executing", "command", "sleeping"}
  /\ execution_record[p].step_id = s

\* the calls run p makes in the step taken
NewCalls(p) ==
  IF process_id'[p] # process_id[p] THEN calls'[p]
  ELSE SubSeq(calls'[p], Len(calls[p]) + 1, Len(calls'[p]))

\* the failures the runs have reported to the breaker of step s so far: the
\* FAILED records of s in the ledger that are not rejections at its gate
FailuresReported(s) ==
  Len(SelectSeq(events, LAMBDA e : e.step_id = s /\ e.status = "failed"
                                     /\ e.error_message # CircuitOpenMsg))

\* the failures reported to the breaker of step s, by whatever run, since the
\* last success reported to it
ConsecutiveFailures(s) ==
  LET succ == {i \in 1..Len(events) :
                 events[i].step_id = s /\ events[i].status = "success"}
      from == IF succ = {} THEN 0 ELSE CHOOSE i \in succ : \A j \in succ : j <= i
  IN Cardinality({i \in (from + 1)..Len(events) :
                    /\ events[i].step_id = s /\ events[i].status = "failed"
                    /\ events[i].error_message # CircuitOpenMsg})

\* run p takes the step
Acts(p) == process_id'[p] # process_id[p] \/ calls'[p] # calls[p] \/ pc'[p] # pc[p]

\* the step attempts that come to their end within the calls cs, in order,
\* each with its outcome: a report to the breaker, or a gate that was
\* consulted and let nothing follow
RECURSIVE AttemptsEnded(_)
AttemptsEnded(cs) ==
  IF cs = <<>> THEN <<>>
  ELSE LET c == Head(cs)
           rest == AttemptsEnded(Tail(cs))
       IN IF c.op = "record_success"
          THEN <<[step_id |-> c.step_id, outcome |-> "success"]>> \o rest
          ELSE IF c.op = "record_failure"
          THEN <<[step_id |-> c.step_id, outcome |-> "failure"]>> \o rest
          ELSE IF c.op = "can_execute" /\ (Len(cs) = 1 \/ cs[2].op # "validate")
          THEN <<[step_id |-> c.step_id, outcome |-> "rejected"]>> \o rest
          ELSE rest

\* the records the step taken has put at the end of the ledger
NewEvents == SubSeq(events', Len(events) + 1, Len(events'))

(***************************************************************************)
(* Claims                                                                  *)
(***************************************************************************)

\* C1: on an acyclic step set whose dependencies all name steps of the set,
\* _resolve_dependencies does not raise, and the sequence it returns holds
\* every step exactly once, each after all the steps it depends on.
C1_ResolverOrder ==
  Resolvable(r_steps) =>
    /\ r_status # "raised"
    /\ r_status = "returned" =>
         /\ Len(r_resolved) = Cardinality(DOMAIN r_steps)
         /\ Range(r_resolved) = DOMAIN r_steps
         /\ \A i \in 1..Len(r_resolved) : \A d \in r_steps[r_resolved[i]] :
              \E j \in 1..(i - 1) : r_resolved[j] = d

C1_Witness ==
  /\ r_status = "returned"
  /\ r_steps = ("V" :> {}) @@ ("C" :> {}) @@ ("N" :> {"V", "C"})
  /\ r_scan = <<"N", "C", "V">>
  /\ r_resolved = <<"C", "V", "N">>

\* C2: execute_process on a step set with a cycle, a self-dependency or a
\* dependency on an absent step fails with the resolver's error, and that
\* call invokes nothing on a step or a breaker, stores no record, appends no
\* trace entry and leaves every circuit breaker as it was.
C2_UnresolvableRunsNothing ==
  [][\A p \in Procs :
       (process_id'[p] # process_id[p] /\ ~Resolvable(steps'[p])) =>
         /\ pc'[p] = "failed"
         /\ error'[p] = ResolveError
         /\ calls'[p] = <<>>
         /\ events' = events
         /\ execution_trace'[p] = <<>>
         /\ circuit_breakers' = circuit_breakers]_vars

C2_Witness ==
  \E p \in Procs :
    /\ steps[p] = Cycle
    /\ pc[p] = "failed"
    /\ error[p] = ResolveError
    /\ events = <<>>

\* C3: compensate is invoked only on steps of the run that ended SUCCESS, in
\* the reverse of the order in which they succeeded; once the run has failed
\* at a step it has been invoked on each of them exactly once, and a run in
\* which no step failed invokes it on none.
C3_ReverseCompensation ==
  \A p \in Procs :
    /\ IsPrefix(Compensated(p), Reverse(Succeeded(p)))
    /\ (pc[p] = "failed" /\ StepFailed(p)) => Compensated(p) = Reverse(Succeeded(p))
    /\ ~StepFailed(p) => Compensated(p) = <<>>

C3_Witness ==
  \E p \in Procs :
    /\ pc[p] = "failed"
    /\ Succeeded(p) = <<"V", "C">>
    /\ execution_order[p][idx[p]] = "N"
    /\ Compensated(p) = <<"C", "V">>

\* C4: once a step has ended non-SUCCESS the run never returns its Context;
\* it raises only when every compensation of the sweep has come back, and the
\* error names the failing step and carries its recorded error_message.
C4_ProcessError ==
  \A p \in Procs :
    StepFailed(p) =>
      LET last == History(p)[Len(History(p))] IN
      /\ last.status = "failed"
      /\ pc[p] \in {"compensating", "failed"}
      /\ pc[p] = "compensating" =>
           /\ error[p] = None
           /\ Len(comp_log[p]) < Len(Succeeded(p))
      /\ pc[p] = "failed" =>
           /\ Len(comp_log[p]) = Len(Succeeded(p))
           /\ error[p] = "Process failed at step " \o last.step_id \o ": "
                           \o last.error_message

C4_Witness ==
  \E p \in Procs :
    /\ pc[p] = "failed"
    /\ error[p] = "Process failed at step N: err"
    /\ Len(comp_log[p]) = 2

\* C5: the step that ends non-SUCCESS is the last one the run attempts: every
\* step after it in the resolved order has no call to its breaker, validate
\* or execute, no ledger record and no trace entry.
C5_NoStepAfterFailure ==
  \A p \in Procs :
    StepFailed(p) =>
      /\ \A i \in 1..Len(History(p)) :
           History(p)[i].status # "success" => i = Len(History(p))
      /\ idx[p] = Len(History(p))
      /\ \A j \in (idx[p] + 1)..Len(execution_order[p]) :
           LET s == execution_order[p][j] IN
           /\ \A c \in Range(calls[p]) : c.step_id # s
           /\ \A e \in Range(History(p)) : e.step_id # s
           /\ \A t \in Range(execution_trace[p]) : t.step_id # s

C5_Witness ==
  \E p \in Procs :
    /\ pc[p] = "failed"
    /\ execution_order[p] = <<"V", "C", "N">>
    /\ StepFailed(p)
    /\ Len(History(p)) = 1
    /\ Compensated(p) = <<>>

\* C6: a compensation that raised or returned an unsuccessful result leaves
\* the sweep going: the next compensate is invoked, and when the run fails
\* every succeeded step has had its compensate call and the error is the one
\* of the step that failed.
C6_SweepSurvivesFailure ==
  \A p \in Procs :
    (\E i \in 1..Len(comp_log[p]) : comp_log[p][i].outcome # "ok") =>
      /\ pc[p] = "compensating" => Len(Compensated(p)) = Len(comp_log[p]) + 1
      /\ pc[p] # "compensating" =>
           /\ pc[p] = "failed"
           /\ StepsOf(comp_log[p]) = Reverse(Succeeded(p))
           /\ Compensated(p) = Reverse(Succeeded(p))
           /\ error[p] = ProcessFailedMsg(execution_record[p].step_id,
                                          execution_record[p].error_message)
           /\ execution_record[p].status = "failed"
           /\ execution_record[p] = History(p)[Len(History(p))]

C6_Witness ==
  \E p \in Procs :
    /\ pc[p] = "failed"
    /\ comp_log[p] = <<[step_id |-> "C", outcome |-> "raise"],
                       [step_id |-> "V", outcome |-> "failed"]>>
    /\ error[p] = "Process failed at step N: boom"

\* C7: a breaker with threshold T is CLOSED as long as fewer than T failures
\* have been recorded since the last success (or since it was built), however
\* many were recorded before, and the T-th consecutive failure opens it.
C7_OpensOnThreshold ==
  LET b == TheBreaker IN
  /\ cb_consec < b.failure_threshold => b.state = "CLOSED"
  /\ (cb_last.op = "record_failure" /\ cb_consec = b.failure_threshold) =>
       /\ b.state = "OPEN"
       /\ cb_last.from = "CLOSED"

C7_Witness ==
  /\ cb_last.op = "record_failure"
  /\ cb_last.from = "CLOSED"
  /\ TheBreaker.failure_threshold = 3
  /\ cb_consec = 3
  /\ cb_total = 4
  /\ TheBreaker.state = "OPEN"

\* C8: on an OPEN breaker whose last failure is no more than timeout ago,
\* can_execute returns false and changes no field of the breaker.
C8_OpenRejects ==
  LET b == TheBreaker IN
  (b.state = "OPEN" /\ now - b.last_failure_time <= b.timeout) =>
    /\ can_execute(b, now) = [ret |-> FALSE, cb |-> b]
    /\ cb_last.op = "can_execute" => ~cb_last.ret

C8_Witness ==
  /\ TheBreaker.state = "OPEN"
  /\ now - TheBreaker.last_failure_time = TheBreaker.timeout
  /\ cb_last = [op |-> "can_execute", ret |-> FALSE, from |-> "OPEN"]

\* C9: between a breaker's transition to HALF_OPEN and the next outcome
\* reported to it, at most one step attempt is admitted through the gate.
C9_SingleProbe == \A s \in StepIds : half_open_admits[s] <= 1

\* C10: record_success leaves the breaker CLOSED with failure_count 0 from
\* whatever state it was in, the next can_execute returns true, and the count
\* is the number of failures recorded since, so that failure_threshold new
\* consecutive failures are needed before the breaker is open again.
C10_SuccessResets ==
  LET b == TheBreaker IN
  /\ cb_last.op = "record_success" =>
       /\ b.state = "CLOSED"
       /\ b.failure_count = 0
       /\ can_execute(b, now).ret
  /\ b.failure_count = cb_consec
  /\ b.state # "CLOSED" => cb_consec >= b.failure_threshold

C10_Witness ==
  /\ cb_last.op = "record_success"
  /\ cb_last.from = "HALF_OPEN"
  /\ TheBreaker.state = "CLOSED"
  /\ TheBreaker.failure_count = 0

\* C11: a failure recorded on a HALF_OPEN breaker is handled as one recorded
\* on a CLOSED breaker: failure_count goes up by one, and the breaker is OPEN
\* afterwards if and only if the new count is at least failure_threshold
\* (otherwise it stays in the state it was in).
C11_HalfOpenFailure ==
  [][(cb_total' = cb_total + 1 /\ TheBreaker.state \in {"CLOSED", "HALF_OPEN"}) =>
       /\ TheBreaker'.failure_count = TheBreaker.failure_count + 1
       /\ TheBreaker'.state = "OPEN" <=>
            TheBreaker'.failure_count >= TheBreaker.failure_threshold
       /\ TheBreaker'.state \in {"OPEN", TheBreaker.state}
       /\ TheBreaker'.failure_threshold = TheBreaker.failure_threshold]_vars

C11_Witness ==
  /\ cb_last.op = "record_failure"
  /\ cb_last.from = "HALF_OPEN"
  /\ TheBreaker.state = "OPEN"
  /\ TheBreaker.failure_count = TheBreaker.failure_threshold + 1

\* C12: when run p consults the breaker of step s and can_execute answers
\* false, a FAILED record of s with the circuit-open error, started and
\* completed at that instant, is stored last in the ledger and is the record
\* of the attempt; the run invokes nothing else on s (no validate, no
\* execute), goes on to compensate the steps that succeeded, in reverse, and
\* fails with the error naming s once they are all compensated.
C12_GateRejection ==
  [][\A p \in Procs :
       /\ \A s \in StepIds :
            (/\ Call("can_execute", s) \in Range(NewCalls(p))
             /\ s \in DOMAIN circuit_breakers
             /\ ~can_execute(circuit_breakers[s], now).ret)
            => LET last == events'[Len(events')] IN
               /\ Len(events') > Len(events)
               /\ last.step_id = s
               /\ last.process_id = process_id'[p]
               /\ last.status = "failed"
               /\ last.error_message = CircuitOpenMsg
               /\ last.started_at = now /\ last.completed_at = now
               /\ execution_record'[p] = last
               /\ pc'[p] \in {"compensating", "failed"}
       /\ execution_record'[p].error_message = CircuitOpenMsg =>
            LET s == execution_record'[p].step_id IN
            /\ \A c \in Range(calls'[p]) : c.step_id = s => c.op = "can_execute"
            /\ IsPrefix(Compensated(p)', Reverse(Succeeded(p)'))
            /\ pc'[p] = "compensating" =>
                 Len(Compensated(p)') = Len(comp_log'[p]) + 1
            /\ pc'[p] = "failed" =>
                 /\ Compensated(p)' = Reverse(Succeeded(p)')
                 /\ Len(comp_log'[p]) = Len(Succeeded(p)')
                 /\ error'[p] = ProcessFailedMsg(s, CircuitOpenMsg)]_vars

C12_Witness ==
  \E p \in Procs :
    /\ pc[p] = "failed"
    /\ execution_record[p].step_id = "C"
    /\ execution_record[p].error_message = CircuitOpenMsg
    /\ Succeeded(p) = <<"V">>
    /\ Compensated(p) = <<"V">>
    /\ \A c \in Range(calls[p]) : c.step_id = "C" => c.op = "can_execute"
    /\ error[p] = "Process failed at step C: Circuit breaker is OPEN"

\* C13: however many times command_func is tried in a step attempt, the
\* attempt leaves exactly one record in the ledger and makes exactly one
\* report to the breaker, both when it is over and none before:
\* record_success if some try returned, record_failure otherwise.
C13_RetriesInvisible ==
  \A p \in Procs : \A s \in StepIds :
    /\ Len(RecordsOf(p, s)) <= 1
    /\ Len(ReportsOf(p, s)) <= 1
    /\ InAttempt(p, s) => RecordsOf(p, s) = <<>> /\ ReportsOf(p, s) = <<>>
    /\ (Call("execute", s) \in Range(calls[p]) /\ ~InAttempt(p, s)) =>
         /\ Len(RecordsOf(p, s)) = 1
         /\ Len(ReportsOf(p, s)) = 1
         /\ ReportsOf(p, s)[1].op =
              IF \E i \in DOMAIN TriesOf(p, s) : TriesOf(p, s)[i].outcome = "return"
              THEN "record_success" ELSE "record_failure"

\* C14: replay_process(pid) returns a new Context of that process_id with an
\* empty trace whose data has exactly the keys "<step_id>_result" of the
\* steps with a SUCCESS record under pid, each with the output_data of a
\* SUCCESS record of that step of the latest started_at; steps whose records
\* are all FAILED or COMPENSATED have no key.
C14_ReplayData ==
  es_last.op = "replay_process" =>
    LET pid == es_last.process_id
        d == es_last.context.data
        Succ(s) == {i \in DOMAIN events : /\ events[i].process_id = pid
                                          /\ events[i].step_id = s
                                          /\ events[i].status = "success"}
    IN /\ es_last.context.process_id = pid
       /\ es_last.context.execution_trace = <<>>
       /\ DOMAIN d = {ResultKey(s) : s \in {t \in StepIds : Succ(t) # {}}}
       /\ \A s \in StepIds :
            Succ(s) # {} =>
              \E i \in Succ(s) :
                /\ \A j \in Succ(s) : events[j].started_at <= events[i].started_at
                /\ d[ResultKey(s)] = events[i].output_data

C14_Witness ==
  /\ es_last.op = "replay_process"
  /\ es_last.process_id = 1
  /\ events = <<Stored(1, "V", 1, "success", OutData2),
                Stored(1, "V", 0, "success", OutData),
                Stored(1, "C", 0, "failed", None)>>
  /\ es_last.context.data = ("V_result" :> "out2")

\* C15: a replay_process call changes nothing but the Context it returns: the
\* ledger, the breakers, every run's calls on steps, Context and position
\* are as before; and a replay of the same process_id made while the ledger
\* is what it was at the previous replay returns an equal Context.
C15_ReplayFrame ==
  [][/\ (es_last'.op = "replay_process" /\ es_last' # es_last) =>
          /\ events' = events
          /\ circuit_breakers' = circuit_breakers
          /\ calls' = calls
          /\ comp_log' = comp_log
          /\ tries' = tries
          /\ data' = data
          /\ execution_trace' = execution_trace
          /\ pc' = pc
     /\ (/\ es_last.op = "replay_process" /\ es_last'.op = "replay_process"
         /\ es_last'.process_id = es_last.process_id
         /\ es_last.at = Len(events) /\ es_last'.at = Len(events)) =>
          es_last'.context = es_last.context]_vars

C15_Witness ==
  \E p \in Procs :
    /\ pc[p] = "executing"
    /\ execution_record[p].step_id = "C"
    /\ "C" \in DOMAIN circuit_breakers
    /\ circuit_breakers["C"].failure_count = 1
    /\ es_last.op = "replay_process"
    /\ es_last.process_id = process_id[p]
    /\ es_last.at = Len(events)
    /\ es_last.context.data = ("V_result" :> "out")

\* C16: the ledger only grows at its end: whatever step is taken (a run's,
\* a direct store_execution, get_process_history or replay_process call) the
\* ledger before is a prefix of the ledger after; a store_execution call
\* appends exactly its record, and the two reading calls leave the ledger as
\* it is.
C16_AppendOnly ==
  [][/\ IsPrefix(events, events')
     /\ es_calls' = es_calls + 1 => events' = Append(events, es_last'.execution)
     /\ (es_last'.op \in {"get_process_history", "replay_process"}
         /\ es_last' # es_last) => events' = events]_vars

C16_Witness ==
  /\ es_last.op = "store_execution"
  /\ Len(events) >= 3
  /\ es_last.at = Len(events) - 1
  /\ events[Len(events)] = es_last.execution
  /\ \E i, j \in 1..(Len(events) - 1) :
       i < j /\ events[i].process_id = 2 /\ events[j].process_id = 1

\* C17: get_process_history(pid) returns the stored records whose process_id
\* is pid, all of them and no other, in the order of the ledger.
C17_History ==
  es_last.op = "get_process_history" =>
    LET h == es_last.history
        P == {i \in DOMAIN events : events[i].process_id = es_last.process_id}
        nth(k) == CHOOSE i \in P : Cardinality({j \in P : j < i}) = k - 1
    IN /\ Len(h) = Cardinality(P)
       /\ \A k \in 1..Len(h) : h[k] = events[nth(k)]

C17_Witness ==
  /\ es_last.op = "get_process_history"
  /\ es_last.process_id = 1
  /\ Len(events) = 3
  /\ events[1].process_id = 1 /\ events[2].process_id = 2 /\ events[3].process_id = 1
  /\ events[1] # events[3]
  /\ es_last.history = <<events[1], events[3]>>

\* C18: a run all of whose steps ended SUCCESS has returned (it has not
\* failed), and a run that has returned has one SUCCESS record per step, in
\* the resolved order; its Context's data is the initial data plus
\* "<step_id>_result" = the recorded output_data for every step of the
\* definition, and its trace is one success entry per step in that order.
C18_AllSucceed ==
  \A p \in Procs :
    LET H == History(p)
        order == execution_order[p]
    IN /\ (process_id[p] # 0 /\ Resolvable(steps[p])
           /\ Range(Succeeded(p)) = DOMAIN steps[p]) => pc[p] = "returned"
       /\ pc[p] = "returned" =>
            /\ error[p] = None
            /\ Range(order) = DOMAIN steps[p]
            /\ Len(H) = Len(order)
            /\ Len(execution_trace[p]) = Len(order)
            /\ DOMAIN data[p] = DOMAIN H[1].input_data
                                  \cup {ResultKey(st) : st \in DOMAIN steps[p]}
            /\ \A k \in DOMAIN H[1].input_data : data[p][k] = H[1].input_data[k]
            /\ \A i \in 1..Len(order) :
                 /\ H[i].step_id = order[i]
                 /\ H[i].status = "success"
                 /\ data[p][ResultKey(order[i])] = H[i].output_data
                 /\ execution_trace[p][i] =
                      [step_id |-> order[i], status |-> "success",
                       timestamp |-> H[i].completed_at]

C18_Witness ==
  \E p \in Procs :
    /\ pc[p] = "returned"
    /\ steps[p] = Chain
    /\ data[p] = ("email" :> "a@b") @@ ("V_result" :> "out")
                   @@ ("C_result" :> "out") @@ ("N_result" :> "out")
    /\ StepsOf(execution_trace[p]) = <<"V", "C", "N">>

\* C19: the trace of a run's Context only grows at its end, one entry at a
\* time: the entry added is that of the attempt of this run that completes
\* in the step taken (its step_id, status and completion time, which is the
\* present), no earlier entry changes, and no step adds to the traces of two
\* runs; a new run starts on the empty trace of its own Context.
C19_TraceOrder ==
  [][/\ \A p \in Procs :
          IF process_id'[p] # process_id[p] THEN execution_trace'[p] = <<>>
          ELSE /\ IsPrefix(execution_trace[p], execution_trace'[p])
               /\ Len(execution_trace'[p]) <= Len(execution_trace[p]) + 1
               /\ Len(execution_trace'[p]) = Len(execution_trace[p]) + 1 =>
                    /\ Len(events') > Len(events)
                    /\ events'[Len(events) + 1].process_id = process_id[p]
                    /\ events'[Len(events) + 1].completed_at = now
                    /\ execution_trace'[p][Len(execution_trace'[p])] =
                         TraceEntry(events'[Len(events) + 1])
     /\ \A p, q \in Procs :
          (p # q /\ execution_trace'[p] # execution_trace[p]) =>
            execution_trace'[q] = execution_trace[q]]_vars

C19_Witness ==
  \E p, q \in Procs :
    /\ p # q
    /\ process_id[p] # process_id[q]
    /\ Len(events) = 4
    /\ events[1].process_id = process_id[p] /\ events[2].process_id = process_id[q]
    /\ events[3].process_id = process_id[q] /\ events[4].process_id = process_id[p]
    /\ execution_trace[p] = <<TraceEntry(events[1]), TraceEntry(events[4])>>
    /\ execution_trace[q] = <<TraceEntry(events[2]), TraceEntry(events[3])>>
    /\ events[2].status = "success" /\ events[3].status = "failed"

\* C20: at the end of a run, returned or failed, the trace of its Context
\* has one entry per ledger record of its process_id, in the same order and
\* with the same step_id and status, the records of attempts rejected by an
\* open breaker included.
C20_TraceMatchesLedger ==
  \A p \in Procs :
    pc[p] \in {"returned", "failed"} =>
      /\ Len(execution_trace[p]) = Len(History(p))
      /\ \A i \in 1..Len(History(p)) :
           /\ execution_trace[p][i].step_id = History(p)[i].step_id
           /\ execution_trace[p][i].status = History(p)[i].status

\* C21: every step attempt is recorded exactly once: whenever a run takes a
\* step, the ledger grows by exactly one record per attempt that comes to its
\* end in that step (success, unsuccessful result, validation failure, raised
\* exception, rejection by the open breaker), the record is the run's, names
\* the step, and is SUCCESS for a success and FAILED for everything else.
C21_RecordedOnce ==
  [][\A p \in Procs : Acts(p) =>
       LET ended == AttemptsEnded(NewCalls(p)) IN
         /\ IsPrefix(events, events')
         /\ Len(NewEvents) = Len(ended)
         /\ \A i \in 1..Len(ended) :
              /\ NewEvents[i].process_id = process_id'[p]
              /\ NewEvents[i].step_id = ended[i].step_id
              /\ NewEvents[i].status =
                   IF ended[i].outcome = "success" THEN "success" ELSE "failed"
              /\ ended[i].outcome = "rejected" =>
                   NewEvents[i].error_message = CircuitOpenMsg]_vars

\* the ledger holds a record of each kind of attempt: a success, an
\* unsuccessful result, a validation failure, a raised exception, a rejection
C21_Witness ==
  /\ \E i \in 1..Len(events) : events[i].status = "success"
  /\ \A m \in {ErrMsg, ExcMsg, ValidationMsg("V"), CircuitOpenMsg} :
       \E i \in 1..Len(events) :
         events[i].status = "failed" /\ events[i].error_message = m
  /\ Len(events) = MaxLedgerRuns

\* C22: the resolver's output is reproducible: the sequence a resolution of a
\* step list has returned is the sequence every resolution of the same list
\* returns, whichever order the iteration over set(steps) takes (the input
\* order of the list is lost when the set is built, so it fixes none).
C22_Reproducible ==
  r_status = "returned" =>
    \A scan \in Perms(DOMAIN r_steps) :
      LET again == _resolve_dependencies(r_steps, scan)
      IN ~again.raised /\ again.order = r_resolved

\* C23: _resolve_dependencies terminates on every finite input: every pass of
\* its while loop moves exactly one step from the unresolved set to the
\* resolved list or raises, so the passes made never exceed the n steps while
\* it runs, a return comes after exactly n passes, a raise at pass n at the
\* latest (so within n + 1 passes), also for cycles, self-dependencies and
\* dependencies on step_ids that are missing.
C23_ResolverTerminates ==
  LET n == Cardinality(DOMAIN r_steps) IN
  r_status # "idle" =>
    /\ r_passes <= n + 1
    /\ Len(r_resolved) + Cardinality(r_unresolved) = n
    /\ Range(r_resolved) \cap r_unresolved = {}
    /\ r_status = "running" => r_passes = Len(r_resolved)
    /\ r_status = "returned" => r_passes = n /\ r_unresolved = {}
    /\ r_status = "raised" =>
         r_passes = Len(r_resolved) + 1 /\ r_unresolved # {} /\ r_passes <= n

\* three steps, one of them in no order (it depends on itself or on a step
\* of a cycle or on a missing step_id): the raise comes at the third pass
C23_Witness ==
  /\ Cardinality(DOMAIN r_steps) = 3
  /\ r_status = "raised"
  /\ r_passes = 3
  /\ Len(r_resolved) = 2

\* C24: within one process execution the steps run strictly one after
\* another: a step's gate is consulted only when every attempt begun before
\* it in the run has ended (with SUCCESS), the calls between an attempt's
\* first and last call concern that step alone, each step is attempted at
\* most once, and validate and execute of a step are invoked only after every
\* step it depends on has reported SUCCESS in that run and has its SUCCESS
\* record in the ledger.
C24_OneAfterAnother ==
  \A p \in Procs :
    LET cs == calls[p]
        Begins == {i \in 1..Len(cs) : cs[i].op = "can_execute"}
        Ends(s) == {k \in 1..Len(cs) :
                      cs[k].step_id = s
                      /\ cs[k].op \in {"record_success", "record_failure"}}
    IN /\ \A i \in Begins : \A j \in Begins :
            j < i => /\ cs[j].step_id # cs[i].step_id
                     /\ \E k \in Ends(cs[j].step_id) :
                          j < k /\ k < i /\ cs[k].op = "record_success"
       /\ \A j \in Begins : \A k \in Ends(cs[j].step_id) :
            \A m \in j..k : cs[m].step_id = cs[j].step_id
       /\ Cardinality({s \in StepIds : InAttempt(p, s)}) <= 1
       /\ \A i \in 1..Len(cs) :
            cs[i].op \in {"validate", "execute"} =>
              \A d \in steps[p][cs[i].step_id] :
                /\ \E k \in 1..(i - 1) : cs[k] = Call("record_success", d)
                /\ \E e \in Range(RecordsOf(p, d)) : e.status = "success"

\* a run of the chain V, C, N is in its attempt of N, the two steps before it
\* attempted and ended one after the other
C24_Witness ==
  \E p \in Procs :
    /\ steps[p] = Chain
    /\ InAttempt(p, "N")
    /\ pc[p] = "executing"
    /\ Succeeded(p) = <<"V", "C">>

\* C25: concurrent runs that report to the same breaker lose no update: with
\* n failures and no success reported, by whatever interleaving of the runs,
\* to a breaker that started at failure_count 0, failure_count is n in every
\* state, the breaker has left CLOSED if and only if n is at least
\* failure_threshold, and on every report of a failure it is left OPEN if and
\* only if n is at least failure_threshold.
C25_NoLostUpdate ==
  [][\A s \in DOMAIN circuit_breakers' :
       LET b == circuit_breakers'[s]
           n == FailuresReported(s)'
       IN /\ b.failure_count = n
          /\ b.state # "CLOSED" <=> n >= b.failure_threshold
          /\ (\E p \in Procs : Call("record_failure", s) \in Range(NewCalls(p))) =>
               /\ n = FailuresReported(s) + 1
               /\ b.state = "OPEN" <=> n >= b.failure_threshold]_vars

\* two runs were in their attempts at once when four failures had been
\* reported, and both have reported theirs: six failures, breaker OPEN
C25_Witness ==
  /\ now = 0
  /\ "V" \in DOMAIN circuit_breakers
  /\ circuit_breakers["V"].failure_count = DefaultFailureThreshold + 1
  /\ circuit_breakers["V"].state = "OPEN"
  /\ FailuresReported("V") = DefaultFailureThreshold + 1

\* a record as _execute_step_with_patterns stores it: every field set, begun
\* and completed, SUCCESS with no error or FAILED with one
Whole(e) ==
  /\ DOMAIN e = DOMAIN NoRecord
  /\ e.step_id \in StepIds
  /\ e.started_at # NoTime /\ e.completed_at # NoTime
  /\ e.started_at <= e.completed_at
  /\ \/ e.status = "success" /\ e.error_message = None
     \/ e.status = "failed" /\ e.error_message # None /\ e.output_data = None

\* C26: concurrent runs that append to the shared EventStore lose and corrupt
\* no record: a step of a run leaves what the ledger held in place and puts
\* at its end exactly the records the run stores in that step, each whole and
\* the last one the run's execution_record (unless the run is already in its
\* next attempt); no attempt (process_id, step_id)
\* is in the ledger twice; and the records of a run's process_id are, in
\* order, the attempts the run has ended.
C26_NoLostRecord ==
  [][/\ IsPrefix(events, events')
     /\ \A i \in 1..Len(events') : \A j \in 1..Len(events') :
          (events'[i].process_id = events'[j].process_id
           /\ events'[i].step_id = events'[j].step_id) => i = j
     /\ \A p \in Procs :
          /\ StepsOf(History(p)') = StepsOf(AttemptsEnded(calls'[p]))
          /\ Acts(p) =>
               /\ Len(NewEvents) = Len(AttemptsEnded(NewCalls(p)))
               /\ \A i \in 1..Len(NewEvents) :
                    /\ Whole(NewEvents[i])
                    /\ NewEvents[i].process_id = process_id'[p]
               /\ (NewEvents # <<>> /\ pc'[p] # "validating") =>
                    NewEvents[Len(NewEvents)] = execution_record'[p]]_vars

\* the records of two runs lie interleaved in the ledger, four records of
\* two finished runs
C26_Witness ==
  /\ Len(events) = 4
  /\ events[1].process_id = events[3].process_id
  /\ events[2].process_id = events[4].process_id
  /\ events[1].process_id # events[2].process_id
  /\ \A p \in Procs : pc[p] = "failed" /\ Len(History(p)) = 2

\* C27: the engine keeps one CircuitBreaker per step_id, made when the step's
\* gate is first consulted and kept from then on by every run, so that the
\* failures of a step_id add up across runs: failure_count is the number of
\* failures reported by any run since the last success, and a run that reaches
\* the gate of a step with failure_threshold or more such failures, no more
\* than timeout after the last of them, is rejected there: validate and
\* execute are not invoked and the run goes on to fail with the rejection
\* record.
C27_BreakerShared ==
  [][LET consulted == {s \in StepIds : \E p \in Procs :
                         Call("can_execute", s) \in Range(NewCalls(p))}
     IN /\ DOMAIN circuit_breakers' = DOMAIN circuit_breakers \cup consulted
        /\ \A s \in DOMAIN circuit_breakers' :
             /\ circuit_breakers'[s].failure_count = ConsecutiveFailures(s)'
             /\ circuit_breakers'[s].failure_threshold = DefaultFailureThreshold
             /\ circuit_breakers'[s].timeout = DefaultTimeout
        /\ \A p \in Procs : \A s \in StepIds :
             (/\ Call("can_execute", s) \in Range(NewCalls(p))
              /\ s \in DOMAIN circuit_breakers
              /\ ConsecutiveFailures(s) >= DefaultFailureThreshold
              /\ now - circuit_breakers[s].last_failure_time <= DefaultTimeout)
             => /\ Call("validate", s) \notin Range(NewCalls(p))
                /\ Call("execute", s) \notin Range(NewCalls(p))
                /\ pc'[p] \in {"compensating", "failed"}
                /\ execution_record'[p].step_id = s
                /\ execution_record'[p].error_message = CircuitOpenMsg
                /\ events'[Len(events')] = execution_record'[p]]_vars

\* five runs have failed at V and the sixth, started within the timeout, has
\* been rejected at the gate of V with no call of validate
C27_Witness ==
  \E p \in Procs :
    /\ now = 0
    /\ process_id[p] = DefaultFailureThreshold + 1
    /\ pc[p] = "failed"
    /\ calls[p] = <<Call("can_execute", "V")>>
    /\ execution_record[p].error_message = CircuitOpenMsg
    /\ ConsecutiveFailures("V") = DefaultFailureThreshold
    /\ Cardinality({events[i].process_id : i \in 1..Len(events)})
         = DefaultFailureThreshold + 1

\* C28: when validate of a step returns false, execute of the step is never
\* invoked, the attempt is in the ledger once, as FAILED with the error
\* "Step validation failed for <step_id>", the step's breaker has been given
\* exactly one failure (its count one higher, its last failure now), and the
\* run compensates the steps that succeeded, last one first, and then fails
\* at that step with that error.
C28_ValidationFalse ==
  [][\A p \in Procs : \A s \in StepIds :
       /\ Returned("validate", s, "false") \in Range(NewCalls(p)) =>
            /\ circuit_breakers'[s].failure_count
                 = circuit_breakers[s].failure_count + 1
            /\ circuit_breakers'[s].last_failure_time = now
            /\ Len(events') = Len(events) + 1
            /\ events'[Len(events')].step_id = s
            /\ events'[Len(events')].process_id = process_id[p]
       /\ Returned("validate", s, "false") \in Range(calls'[p]) =>
            /\ Call("execute", s) \notin Range(calls'[p])
            /\ Len(RecordsOf(p, s)') = 1
            /\ RecordsOf(p, s)'[1].status = "failed"
            /\ RecordsOf(p, s)'[1].error_message = ValidationMsg(s)
            /\ ReportsOf(p, s)' = <<Call("record_failure", s)>>
            /\ pc'[p] \in {"compensating", "failed"}
            /\ IsPrefix(Compensated(p)', Reverse(Succeeded(p)'))
            /\ pc'[p] = "failed" =>
                 /\ Compensated(p)' = Reverse(Succeeded(p)')
                 /\ error'[p] = ProcessFailedMsg(s, ValidationMsg(s))]_vars

\* V has succeeded, validate of C has returned false, V has been compensated
\* and the run has failed at C
C28_Witness ==
  \E p \in Procs :
    /\ Returned("validate", "C", "false") \in Range(calls[p])
    /\ pc[p] = "failed"
    /\ Succeeded(p) = <<"V">>
    /\ Compensated(p) = <<"V">>
    /\ error[p] = "Process failed at step C: Step validation failed for C"

\* C29: an exception raised by validate or execute of a step does not leave
\* the attempt: the attempt ends with a FAILED record that carries the
\* exception's message and is stored once, the step's breaker is given
\* exactly one failure, and what the caller of execute_process gets is only
\* the process-level error, raised once the succeeded steps are compensated.
C29_ExceptionContained ==
  [][\A p \in Procs : \A s \in StepIds :
       LET raised(cs) == \/ Returned("validate", s, "raise") \in Range(cs)
                         \/ Returned("execute", s, "raise") \in Range(cs)
       IN /\ raised(NewCalls(p)) =>
               /\ circuit_breakers'[s].failure_count
                    = circuit_breakers[s].failure_count + 1
               /\ Len(events') = Len(events) + 1
               /\ events'[Len(events')] =
                    [execution_record[p] EXCEPT !.status = "failed",
                                                !.error_message = ExcMsg,
                                                !.completed_at = now]
          /\ raised(calls'[p]) =>
               /\ Len(RecordsOf(p, s)') = 1
               /\ RecordsOf(p, s)'[1].status = "failed"
               /\ RecordsOf(p, s)'[1].error_message = ExcMsg
               /\ ReportsOf(p, s)' = <<Call("record_failure", s)>>
               /\ pc'[p] \in {"compensating", "failed"}
               /\ pc'[p] = "compensating" => error'[p] = None
               /\ pc'[p] = "failed" =>
                    /\ error'[p] = ProcessFailedMsg(s, ExcMsg)
                    /\ Compensated(p)' = Reverse(Succeeded(p)')]_vars

\* V has succeeded, execute of C has raised, V has been compensated and the
\* caller has the process-level error
C29_Witness ==
  \E p \in Procs :
    /\ Returned("execute", "C", "raise") \in Range(calls[p])
    /\ pc[p] = "failed"
    /\ Compensated(p) = <<"V">>
    /\ error[p] = "Process failed at step C: boom"
    /\ History(p)[2].status = "failed"
    /\ History(p)[2].error_message = ExcMsg

\* the time units slept over the tries T
RECURSIVE TotalSleep(_)
TotalSleep(T) == IF T = <<>> THEN 0 ELSE Head(T).sleep + TotalSleep(Tail(T))

\* C30: for retry_count r >= 0, CommandStep.execute invokes command_func at
\* most r + 1 times, with attempt numbers 0, 1, ... and none after the first
\* invocation that returns; it sleeps 2^attempt after a failed invocation
\* unless that was number r, the last; it reports failure exactly when r + 1
\* invocations have failed, with the exception's message and after sleeping
\* 2^r - 1 time units in all, and success with command_func's value exactly
\* when the last invocation returned.
C30_RetryBudget ==
  \A p \in Procs : \A s \in StepIds :
    LET r == retry_count[s]
        T == TriesOf(p, s)
        invoked == Len(SelectSeq(calls[p], LAMBDA c : c = Call("command_func", s)))
        allRaised == \A i \in 1..Len(T) : T[i].outcome = "raise"
    IN (r >= 0 /\ step_type[s] = "command") =>
         /\ invoked <= r + 1
         /\ invoked = Len(T) + (IF InAttempt(p, s) /\ pc[p] = "command" THEN 1 ELSE 0)
         /\ \A i \in 1..Len(T) :
              /\ T[i].attempt = i - 1
              /\ i < Len(T) => T[i].outcome = "raise"
              /\ T[i].sleep = IF T[i].outcome = "raise" /\ i - 1 < r
                              THEN 2^(i - 1) ELSE 0
         /\ (InAttempt(p, s) /\ pc[p] \in {"command", "sleeping"}) =>
              allRaised /\ Len(T) <= r
         /\ (Call("execute", s) \in Range(calls[p]) /\ ~InAttempt(p, s)) =>
              /\ Len(RecordsOf(p, s)) = 1
              /\ LET e == RecordsOf(p, s)[1] IN
                   /\ e.status = "failed" <=> (allRaised /\ Len(T) = r + 1)
                   /\ e.status = "success" <=> T[Len(T)].outcome = "return"
                   /\ e.status = "failed" =>
                        /\ e.error_message = ExcMsg
                        /\ TotalSleep(T) = 2^r - 1
                   /\ e.status = "success" => e.output_data = OutData
                   /\ e.completed_at - e.started_at >= TotalSleep(T)

\* retry_count 2: command_func has failed three times, with sleeps of 1 and
\* 2 in between, and the attempt is stored as FAILED three time units after
\* it began
C30_Witness ==
  \E p \in Procs :
    /\ retry_count["V"] = 2
    /\ Len(TriesOf(p, "V")) = 3
    /\ TotalSleep(TriesOf(p, "V")) = 3
    /\ pc[p] = "failed"
    /\ execution_record[p].status = "failed"
    /\ execution_record[p].error_message = ExcMsg
    /\ execution_record[p].completed_at - execution_record[p].started_at = 3

\* Context.data of run p when the attempt behind its i-th record began: what
\* the caller put in, and the result of every step that had succeeded
SnapshotAt(p, i) ==
  LET h == History(p)
      before == {j \in 1..(i - 1) : h[j].status = "success"}
      given == DOMAIN data[p] \ {ResultKey(s) : s \in StepIds}
  IN [k \in given \cup {ResultKey(h[j].step_id) : j \in before} |->
        IF k \in given THEN data[p][k]
        ELSE LET j == CHOOSE j \in before : ResultKey(h[j].step_id) = k
             IN h[j].output_data]

\* C31: every record in the ledger carries as input_data what Context.data
\* held when its attempt began, and keeps it: the results written to
\* Context.data for this step and for later ones are not in it.
C31_InputSnapshot ==
  \A p \in Procs : \A i \in 1..Len(History(p)) :
    History(p)[i].input_data = SnapshotAt(p, i)

\* execute_process of run p is over in one of the two ways it can be: it has
\* returned after one attempt of every step, all SUCCESS, or it has raised,
\* with no step run (the resolver's error) or after a single failed attempt
\* and one sweep over the steps that had succeeded
EndedProperly(p) ==
  \/ /\ pc[p] = "returned"
     /\ Len(History(p)) = Cardinality(DOMAIN steps[p])
     /\ Range(Succeeded(p)) = DOMAIN steps[p]
     /\ Compensated(p) = <<>>
  \/ /\ pc[p] = "failed"
     /\ error[p] = ResolveError
     /\ calls[p] = <<>>
  \/ /\ pc[p] = "failed"
     /\ error[p] # ResolveError
     /\ Len(History(p)) = Len(Succeeded(p)) + 1
     /\ Compensated(p) = Reverse(Succeeded(p))

\* C32: if every validate, execute and compensate call the engine makes comes
\* back, execute_process comes to its end: a run that waits for a callback
\* leads to a run that has returned or raised; it has then attempted every
\* step once and returned, or raised after one compensation sweep; no step is
\* attempted twice, and the engine waits for nothing but the callbacks.
C32_Terminates ==
  /\ [](\A p \in Procs :
          /\ pc[p] \in {"idle", "validating", "executing", "compensating",
                        "returned", "failed"}
          /\ pc[p] \in {"returned", "failed"} => EndedProperly(p)
          /\ \A s \in StepIds :
               Len(SelectSeq(calls[p], LAMBDA c : c = Call("can_execute", s))) <= 1)
  /\ \A p \in Procs :
       (pc[p] \in {"validating", "executing", "compensating"})
         ~> (pc[p] \in {"returned", "failed"})

\* the caller's second run has raised after a sweep over two steps
C32_Witness ==
  \E p \in Solo :
    /\ process_id[p] = 2
    /\ pc[p] = "failed"
    /\ Len(comp_log[p]) = 2
    /\ EndedProperly(p)

\* more than timeout has passed since the breaker's last failure
CooledDown == now - TheBreaker.last_failure_time > TheBreaker.timeout

\* C33: an OPEN breaker becomes probeable again: once more than timeout has
\* passed since last_failure_time, can_execute returns true and leaves the
\* breaker HALF_OPEN with nothing else changed, and with callers that keep
\* coming an OPEN breaker that has cooled down does not stay OPEN: it is
\* HALF_OPEN (or closed by a success) in the end, unless a further failure is
\* recorded first.
C33_ProbeableAgain ==
  /\ []((TheBreaker.state = "OPEN" /\ CooledDown) =>
          can_execute(TheBreaker, now) =
            [ret |-> TRUE, cb |-> [TheBreaker EXCEPT !.state = "HALF_OPEN"]])
  /\ []((cb_last = [op |-> "can_execute", ret |-> TRUE, from |-> "OPEN"]) =>
          (TheBreaker.state = "HALF_OPEN" /\ CooledDown))
  /\ \A n \in 0..(MaxFailures + 1) :
       (TheBreaker.state = "OPEN" /\ CooledDown /\ cb_total = n)
         ~> (TheBreaker.state # "OPEN" \/ cb_total > n)

\* the call made one tick after the timeout has been let through and the
\* breaker is HALF_OPEN
C33_Witness ==
  /\ cb_last = [op |-> "can_execute", ret |-> TRUE, from |-> "OPEN"]
  /\ TheBreaker.state = "HALF_OPEN"
  /\ now - TheBreaker.last_failure_time = TheBreaker.timeout + 1
  /\ TheBreaker.failure_count = TheBreaker.failure_threshold

\* C34: for failure_threshold >= 1 a breaker is CLOSED if and only if its
\* failure_count is below failure_threshold; OPEN and HALF_OPEN breakers have
\* a count of at least the threshold (opening does not reset it) and a last
\* failure, so that one failure recorded in HALF_OPEN opens the breaker again
\* at once.
C34_StateMatchesCount ==
  LET b == TheBreaker IN
  b.failure_threshold >= 1 =>
    /\ b.state \in {"CLOSED", "OPEN", "HALF_OPEN"}
    /\ b.failure_count >= 0
    /\ b.state = "CLOSED" <=> b.failure_count < b.failure_threshold
    /\ b.state \in {"OPEN", "HALF_OPEN"} =>
         /\ b.failure_count >= b.failure_threshold
         /\ b.last_failure_time # NoTime
    /\ b.state = "HALF_OPEN" => record_failure(b, now).state = "OPEN"
    /\ (cb_last.op = "record_failure" /\ cb_last.from = "HALF_OPEN") =>
         b.state = "OPEN"

\* a breaker of threshold 2 is HALF_OPEN with its two failures still counted
C34_Witness ==
  /\ TheBreaker.failure_threshold = 2
  /\ TheBreaker.state = "HALF_OPEN"
  /\ TheBreaker.failure_count = 2
  /\ cb_total = 2

\* C35: no run invokes a step's execute while that step's breaker is OPEN; a
\* run admitted while the breaker was CLOSED and suspended in validate does
\* not go on to execute once the failures of other runs have opened it.
C35_NoExecuteWhileOpen ==
  [][\A p \in Procs : \A s \in StepIds :
       (Call("execute", s) \in Range(NewCalls(p)) /\ s \in DOMAIN circuit_breakers) =>
         circuit_breakers[s].state # "OPEN"]_vars

\* C36: a breaker leaves OPEN only through a can_execute call made after the
\* timeout, which moves it to HALF_OPEN; it never goes from OPEN straight to
\* CLOSED, also when a run admitted before the breaker opened reports its
\* success afterwards.
C36_OpenLeavesByProbe ==
  [][\A s \in DOMAIN circuit_breakers :
       circuit_breakers[s].state = "OPEN" =>
         circuit_breakers'[s].state \in {"OPEN", "HALF_OPEN"}]_vars

\* the attempt of step s that run p makes in this step is rejected by the gate
Rejects(p, s) ==
  /\ NewCalls(p) # <<>>
  /\ NewCalls(p)[Len(NewCalls(p))] = Call("can_execute", s)
  /\ pc'[p] # "validating"

\* C37: an attempt rejected by the gate reports nothing to the breaker: no
\* record_failure and no record_success is called for it, and the breaker
\* (failure_count, last_failure_time, state) is left as it was, so that a
\* rejection never extends the cooldown.
C37_RejectionSilent ==
  [][\A p \in Procs : \A s \in StepIds :
       Rejects(p, s) =>
         /\ s \in DOMAIN circuit_breakers
         /\ circuit_breakers[s].state = "OPEN"
         /\ circuit_breakers'[s] = circuit_breakers[s]
         /\ \A i \in DOMAIN NewCalls(p) :
              NewCalls(p)[i].step_id = s =>
                NewCalls(p)[i].op \notin {"record_failure", "record_success"}
         /\ \E i \in DOMAIN NewEvents :
              /\ NewEvents[i].step_id = s
              /\ NewEvents[i].error_message = CircuitOpenMsg]_vars

\* after a rejection the probe is admitted one timeout after the last failure
\* that was recorded, the rejection having moved nothing
C37_Witness ==
  /\ \E i \in DOMAIN events : events[i].error_message = CircuitOpenMsg
  /\ "V" \in DOMAIN circuit_breakers
  /\ circuit_breakers["V"].state = "HALF_OPEN"
  /\ circuit_breakers["V"].failure_count = DefaultFailureThreshold
  /\ circuit_breakers["V"].last_failure_time = 0
  /\ now = DefaultTimeout + 1

\* C38: every record in the ledger has status SUCCESS or FAILED; the
\* compensation sweep stores no record and leaves the record of a step it
\* compensates as it was (one SUCCESS record), so that replaying a failed run
\* still gives the result entries of its compensated steps.
C38_LedgerStatuses ==
  /\ \A i \in DOMAIN events : events[i].status \in {"success", "failed"}
  /\ \A p \in Procs :
       process_id[p] # 0 =>
         /\ Len(History(p)) = Len(AttemptsEnded(calls[p]))
         /\ \A k \in DOMAIN comp_log[p] :
              LET s == comp_log[p][k].step_id
                  recs == RecordsOf(p, s)
                  replayed == replay_process(events, process_id[p]).data
              IN /\ Len(recs) = 1
                 /\ recs[1].status = "success"
                 /\ ResultKey(s) \in DOMAIN replayed
                 /\ replayed[ResultKey(s)] = recs[1].output_data

\* a run has failed at C and compensated V, and its replay still has V_result
C38_Witness ==
  \E p \in Procs :
    /\ pc[p] = "failed"
    /\ StepsOf(comp_log[p]) = <<"V">>
    /\ StepsOf(History(p)) = <<"V", "C">>
    /\ History(p)[2].status = "failed"
    /\ DOMAIN replay_process(events, process_id[p]).data = {ResultKey("V")}

\* C39: the compensation sweep removes no result entry from Context.data,
\* appends nothing to execution_trace, stores nothing and reports nothing to
\* any breaker; while and after it runs, the data of the failed run holds the
\* inputs and the results of all steps that succeeded, and none for the step
\* that failed.
C39_SweepFrame ==
  /\ [][\A p \in Procs :
          (pc[p] = "compensating" /\ Acts(p)) =>
            /\ data'[p] = data[p]
            /\ execution_trace'[p] = execution_trace[p]
            /\ events' = events
            /\ circuit_breakers' = circuit_breakers
            /\ Len(comp_log'[p]) = Len(comp_log[p]) + 1
            /\ \A i \in DOMAIN NewCalls(p) : NewCalls(p)[i].op = "compensate"]_vars
  /\ [](\A p \in Procs :
          (pc[p] \in {"compensating", "failed"} /\ History(p) # <<>>) =>
            LET H == History(p) IN
            /\ \E d \in DataInputs :
                 /\ DOMAIN data[p] =
                      DOMAIN d \cup {ResultKey(s) : s \in Range(Succeeded(p))}
                 /\ \A k \in DOMAIN d : data[p][k] = d[k]
            /\ \A i \in DOMAIN H :
                 IF H[i].status = "success"
                 THEN data[p][ResultKey(H[i].step_id)] = H[i].output_data
                 ELSE ResultKey(H[i].step_id) \notin DOMAIN data[p])

\* a run that failed at N has compensated C and V, one of them failing, and
\* still holds the results of both
C39_Witness ==
  \E p \in Procs :
    /\ pc[p] = "failed"
    /\ StepsOf(comp_log[p]) = <<"C", "V">>
    /\ comp_log[p][1].outcome = "raise"
    /\ StepsOf(History(p)) = <<"V", "C", "N">>
    /\ data[p] = ("email" :> "a@b") @@ ("V_result" :> "out") @@ ("C_result" :> "out")
    /\ Len(execution_trace[p]) = 3

\* C40: for every integer retry_count, below 0 included, CommandStep.execute
\* returns success only if some invocation of command_func returned without
\* raising, and it invokes command_func at least once.
C40_SuccessNeedsReturn ==
  \A p \in Procs : \A s \in StepIds :
    (step_type[s] = "command" /\ Call("execute", s) \in Range(calls[p])
       /\ ~InAttempt(p, s)) =>
      /\ Call("command_func", s) \in Range(calls[p])
      /\ TriesOf(p, s) # <<>>
      /\ (\E i \in DOMAIN RecordsOf(p, s) : RecordsOf(p, s)[i].status = "success") =>
           \E i \in DOMAIN TriesOf(p, s) : TriesOf(p, s)[i].outcome = "return"

====
